---- MODULE Spec2Model ----
(***************************************************************************)
(* A model of mcp-komodo: the startup sequence (configuration, client      *)
(* factory, connectivity check, tool registration through the access-tier  *)
(* gate), the tool handlers and the error sanitizer.                        *)
(*                                                                         *)
(* Text is modelled as a sequence of one-character strings, so that        *)
(* substring replacement and the header patterns are computed character    *)
(* by character, as String.prototype.replaceAll and RegExp replace do.     *)
(***************************************************************************)
EXTENDS Integers, Sequences, FiniteSets, TLC

VARIABLES
    env,                \* process.env: the variables the loader reads
    pc,                 \* position of main()
    config,             \* AppConfig returned by loadConfig, or Null
    SENSITIVE_PATTERNS, \* the module-level registry of part_000 (errors)
    client,             \* the KomodoClient: Null until createClient built it
    server,             \* the McpServer: Null, or its registered tools
    regLog,             \* return values of registerTool, in call order
    nextModule,         \* index of the next register*Tools call of registerAllTools
    exitCode,           \* Null while the process runs, else process.exit's code
    stderr,             \* what logger.error printed, in order
    issued,             \* verbs of the client calls issued by tool handlers
    calls,              \* tool calls in flight: slot -> call record or Idle
    message,            \* sanitizer harness: the input of sanitizeMessage
    sanitized,          \* sanitizer harness: sanitizeMessage(message)
    resanitized         \* sanitizer harness: sanitizeMessage(sanitized)

vars == <<env, pc, config, SENSITIVE_PATTERNS, client, server, regLog,
          nextModule, exitCode, stderr, issued, calls,
          message, sanitized, resanitized>>

----------------------------------------------------------------------------
(* Text helpers *)

Whitespace == {" ", "\t", "\n"}

UpperCase == <<"A","B","C","D","E","F","G","H","I","J","K","L","M",
               "N","O","P","Q","R","S","T","U","V","W","X","Y","Z">>
LowerCase == <<"a","b","c","d","e","f","g","h","i","j","k","l","m",
               "n","o","p","q","r","s","t","u","v","w","x","y","z">>

UpperSet == {UpperCase[i] : i \in 1..Len(UpperCase)}

LowerMap == [c \in UpperSet |->
                LowerCase[CHOOSE i \in 1..Len(UpperCase) : UpperCase[i] = c]]

\* Case folding of one character, as the i flag of a RegExp compares.
Lower(c) == IF c \in UpperSet THEN LowerMap[c] ELSE c

\* Does p occur in s starting at index i (exact, case-sensitive)?
MatchesAt(s, p, i) ==
    /\ i + Len(p) - 1 <= Len(s)
    /\ \A k \in 1..Len(p) : s[i + k - 1] = p[k]

\* Does p occur in s starting at index i, ignoring case?
MatchesAtNoCase(s, p, i) ==
    /\ i + Len(p) - 1 <= Len(s)
    /\ \A k \in 1..Len(p) : Lower(s[i + k - 1]) = Lower(p[k])

\* s contains p as a substring (String.prototype.includes).
Contains(s, p) == \E i \in 1..(Len(s) - Len(p) + 1) : MatchesAt(s, p, i)

RECURSIVE Concat(_)
Concat(ss) == IF ss = <<>> THEN <<>> ELSE Head(ss) \o Concat(Tail(ss))

REDACTED == <<"[","R","E","D","A","C","T","E","D","]">>

----------------------------------------------------------------------------
(* part_000: the error sanitization layer *)

\* String.prototype.replaceAll(pattern, replacement) for a string pattern:
\* the non-overlapping occurrences, left to right, are replaced. An empty
\* pattern never reaches it (registerSensitivePattern drops empty strings).
\* From index i on: the text up to the first occurrence at or after i is
\* kept, the occurrence is replaced, and the search goes on behind it.
RECURSIVE replaceAllFrom(_, _, _, _)
replaceAllFrom(s, pattern, replacement, i) ==
    LET hits == {j \in i..Len(s) : pattern # <<>> /\ MatchesAt(s, pattern, j)}
    IN  IF hits = {} THEN SubSeq(s, i, Len(s))
        ELSE LET first == CHOOSE j \in hits : \A k \in hits : j <= k
             IN  SubSeq(s, i, first - 1) \o replacement
                 \o replaceAllFrom(s, pattern, replacement, first + Len(pattern))

replaceAll(s, pattern, replacement) == replaceAllFrom(s, pattern, replacement, 1)

\* First index >= i of s that is not whitespace (Len(s)+1 if none): \s*
RECURSIVE SkipSpace(_, _)
SkipSpace(s, i) ==
    IF i <= Len(s) /\ s[i] \in Whitespace THEN SkipSpace(s, i + 1) ELSE i

\* First index >= i of s that is whitespace (Len(s)+1 if none): \S+
RECURSIVE SkipNonSpace(_, _)
SkipNonSpace(s, i) ==
    IF i <= Len(s) /\ s[i] \notin Whitespace THEN SkipNonSpace(s, i + 1) ELSE i

\* s.replace(/<header>\s*\S+/gi, "<header> [REDACTED]"): at each position,
\* left to right, the header name matched ignoring case, then all the
\* whitespace, then the longest run of non-whitespace (at least one
\* character, else there is no match at that position).
RECURSIVE replaceHeaderFrom(_, _, _)
replaceHeaderFrom(s, header, i) ==
    LET hits == {j \in i..Len(s) :
                    /\ MatchesAtNoCase(s, header, j)
                    /\ SkipSpace(s, j + Len(header)) <= Len(s)}
    IN  IF hits = {} THEN SubSeq(s, i, Len(s))
        ELSE LET first == CHOOSE j \in hits : \A k \in hits : j <= k
             IN  SubSeq(s, i, first - 1) \o header \o <<" ">> \o REDACTED
                 \o replaceHeaderFrom(s, header,
                        SkipNonSpace(s, SkipSpace(s, first + Len(header))))

replaceHeader(s, header) == replaceHeaderFrom(s, header, 1)

X_API_KEY == <<"x","-","a","p","i","-","k","e","y",":">>
X_API_SECRET == <<"x","-","a","p","i","-","s","e","c","r","e","t",":">>
AUTHORIZATION == <<"a","u","t","h","o","r","i","z","a","t","i","o","n",":">>

\* The loop of sanitizeMessage over the registry, in registration order.
RECURSIVE redactPatterns(_, _)
redactPatterns(s, patterns) ==
    IF patterns = <<>> THEN s
    ELSE redactPatterns(replaceAll(s, Head(patterns), REDACTED), Tail(patterns))

\* sanitizeMessage, given the registry it reads.
sanitizeWith(patterns, s) ==
    replaceHeader(
        replaceHeader(
            replaceHeader(redactPatterns(s, patterns), X_API_KEY),
            X_API_SECRET),
        AUTHORIZATION)

\* A faulty variant: a registry that keeps each pattern once.
registerSensitivePattern_Dedup(patterns, pattern) ==
    IF pattern # <<>> /\ \A i \in 1..Len(patterns) : patterns[i] # pattern
    THEN Append(patterns, pattern) ELSE patterns

\* registerSensitivePattern: the registry after the call.
registerSensitivePattern(patterns, pattern) ==
    IF pattern # <<>> THEN Append(patterns, pattern) ELSE patterns

\* JSON.stringify of a string value: quotes and backslashes are escaped.
RECURSIVE jsonEscape(_)
jsonEscape(s) ==
    IF s = <<>> THEN <<>>
    ELSE (IF Head(s) = "\"" THEN <<"\\", "\"">>
          ELSE IF Head(s) = "\\" THEN <<"\\", "\\">>
          ELSE IF Head(s) = "\n" THEN <<"\\", "n">>
          ELSE IF Head(s) = "\t" THEN <<"\\", "t">>
          ELSE <<Head(s)>>) \o jsonEscape(Tail(s))

(* The values a client call can reject with, by the branch of                *)
(* handleKomodoError that handles them:                                      *)
(*   kind "Error"     an Error instance with message text                    *)
(*   kind "object"    a plain object {error: text}                           *)
(*   kind "messageObject"  a plain object {message: text}                    *)
(*   kind "circular"  an object that refers to itself                        *)
(*   kind "string"    a string                                               *)
(*   kind "undefined" the value undefined                                    *)
(*   kind "null"      the value null                                         *)
ErrorValue(kind, text) == [kind |-> kind, text |-> text]

\* error instanceof Error
instanceofError(error) == error.kind = "Error"

\* typeof error === "object" && error !== null
isNonNullObject(error) ==
    error.kind \in {"Error", "object", "messageObject", "circular"}

\* JSON.stringify(error): [threw, text]. A circular structure makes it throw
\* a TypeError.
JSONstringify(error) ==
    IF error.kind = "circular" THEN [threw |-> TRUE, text |-> <<>>]
    ELSE [threw |-> FALSE,
          text |-> (IF error.kind = "messageObject"
                    THEN <<"{", "\"", "m", "e", "s", "s", "a", "g", "e", "\"", ":", "\"">>
                    ELSE <<"{", "\"", "e", "r", "r", "o", "r", "\"", ":", "\"">>)
                   \o jsonEscape(error.text) \o <<"\"", "}">>]

\* String(error) for the values that are neither Error nor object.
StringOf(error) ==
    IF error.kind = "string" THEN error.text
    ELSE IF error.kind = "undefined"
         THEN <<"u", "n", "d", "e", "f", "i", "n", "e", "d">>
         ELSE <<"n", "u", "l", "l">>

\* The rawMessage expression of handleKomodoError: [threw, text].
rawMessageOf(error) ==
    IF instanceofError(error) THEN [threw |-> FALSE, text |-> error.text]
    ELSE IF isNonNullObject(error) THEN JSONstringify(error)
    ELSE [threw |-> FALSE, text |-> StringOf(error)]

NoResponse == [content |-> <<>>, isError |-> FALSE]

\* handleKomodoError(context, error), given the registry sanitizeMessage
\* reads: [threw, response]. Nothing in it catches what rawMessage throws.
handleKomodoError(patterns, context, error) ==
    LET rawMessage == rawMessageOf(error)
    IN  IF rawMessage.threw
        THEN [threw |-> TRUE, response |-> NoResponse]
        ELSE [threw |-> FALSE,
              response |->
                [content |-> << [type |-> "text",
                                 text |-> <<"E", "r", "r", "o", "r", " ">> \o context
                                          \o <<":", " ">>
                                          \o sanitizeWith(patterns, rawMessage.text)] >>,
                 isError |-> TRUE]]

----------------------------------------------------------------------------
(* part_001: environment variable parsing and validation *)

\* A variable of process.env: undefined, or a string (possibly empty).
Undefined == [set |-> FALSE, value |-> <<>>]
Defined(v) == [set |-> TRUE, value |-> v]

\* !x for a string | undefined: true when undefined or empty.
Falsy(var) == ~var.set \/ var.value = <<>>

\* parseAccessTier: KOMODO_ACCESS_TIER is compared as a whole string, so
\* its value is kept as one string.
UndefinedTier == [set |-> FALSE, value |-> ""]

\* A faulty variant: an unknown tier read as the least permissive one.
parseAccessTier_DefaultReadOnly(tier) ==
    IF tier.set /\ (tier.value = "read-execute" \/ tier.value = "full")
    THEN tier.value
    ELSE "read-only"

parseAccessTier(tier) ==
    IF tier.set /\ (tier.value = "read-only" \/ tier.value = "read-execute")
    THEN tier.value
    ELSE "full"

(* KOMODO_CATEGORIES is a sequence of symbols: "," and " " are the          *)
(* characters split and trim look for, every other symbol is a run of       *)
(* characters that holds neither (a category name, for instance).           *)

\* value.split(','): the segments between the commas (always at least one).
RECURSIVE splitComma(_, _)
splitComma(s, current) ==
    IF s = <<>> THEN <<current>>
    ELSE IF Head(s) = "," THEN <<current>> \o splitComma(Tail(s), <<>>)
    ELSE splitComma(Tail(s), Append(current, Head(s)))

\* s.trim()
RECURSIVE trimStart(_)
trimStart(s) ==
    IF s # <<>> /\ Head(s) \in Whitespace THEN trimStart(Tail(s)) ELSE s

RECURSIVE trimEnd(_)
trimEnd(s) ==
    IF s # <<>> /\ s[Len(s)] \in Whitespace
    THEN trimEnd(SubSeq(s, 1, Len(s) - 1)) ELSE s

trim(s) == trimEnd(trimStart(s))

\* .map((s) => s.trim()).filter((s) => s.length > 0)
RECURSIVE trimAndFilter(_)
trimAndFilter(segments) ==
    IF segments = <<>> THEN <<>>
    ELSE (IF trim(Head(segments)) # <<>> THEN <<trim(Head(segments))>> ELSE <<>>)
         \o trimAndFilter(Tail(segments))

\* string[] | null
NullCategories == [isNull |-> TRUE, list |-> <<>>]
CategoryList(l) == [isNull |-> FALSE, list |-> l]

\* A faulty variant: absent or empty input read as an allowlist without
\* entries.
parseCategories_EmptyListForAbsent(value) ==
    CategoryList(IF ~value.set THEN <<>>
                 ELSE trimAndFilter(splitComma(value.value, <<>>)))

parseCategories(value) ==
    IF ~value.set \/ value.value = <<>> THEN NullCategories
    ELSE CategoryList(trimAndFilter(splitComma(value.value, <<>>)))

\* url.replace(/\/+$/, '')
RECURSIVE stripTrailingSlashes(_)
stripTrailingSlashes(url) ==
    IF url # <<>> /\ url[Len(url)] = "/"
    THEN stripTrailingSlashes(SubSeq(url, 1, Len(url) - 1)) ELSE url

\* A faulty variant: validation that stops at the first missing variable.
missingOf_FirstOnly(e) ==
    IF Falsy(e.KOMODO_URL) THEN <<"KOMODO_URL">>
    ELSE IF Falsy(e.KOMODO_API_KEY) THEN <<"KOMODO_API_KEY">>
    ELSE IF Falsy(e.KOMODO_API_SECRET) THEN <<"KOMODO_API_SECRET">>
    ELSE <<>>

\* The missing array of loadConfig.
missingOf(e) ==
    (IF Falsy(e.KOMODO_URL) THEN <<"KOMODO_URL">> ELSE <<>>)
    \o (IF Falsy(e.KOMODO_API_KEY) THEN <<"KOMODO_API_KEY">> ELSE <<>>)
    \o (IF Falsy(e.KOMODO_API_SECRET) THEN <<"KOMODO_API_SECRET">> ELSE <<>>)

\* missing.join(', ')
RECURSIVE joinComma(_)
joinComma(names) ==
    IF names = <<>> THEN <<>>
    ELSE IF Len(names) = 1 THEN <<names[1]>>
    ELSE <<names[1], ", ">> \o joinComma(Tail(names))

NoConfig ==
    [url |-> <<>>, apiKey |-> <<>>, apiSecret |-> <<>>, accessTier |-> "full",
     categories |-> NullCategories, debug |-> FALSE]

\* loadConfig: [threw, message, config]. The message of the Error it throws
\* is a sequence of its literal parts and the names of the missing variables.
loadConfig(e) ==
    IF Len(missingOf(e)) > 0
    THEN [threw |-> TRUE,
          message |-> <<"Missing required environment variables: ">>
                      \o joinComma(missingOf(e))
                      \o <<". ", "Set these variables to connect to your Komodo instance.">>,
          config |-> NoConfig]
    ELSE [threw |-> FALSE,
          message |-> <<>>,
          config |-> [url |-> stripTrailingSlashes(e.KOMODO_URL.value),
                      apiKey |-> e.KOMODO_API_KEY.value,
                      apiSecret |-> e.KOMODO_API_SECRET.value,
                      accessTier |-> parseAccessTier(e.KOMODO_ACCESS_TIER),
                      categories |-> parseCategories(e.KOMODO_CATEGORIES),
                      debug |-> e.DEBUG.set /\ e.DEBUG.value # <<>>]]

----------------------------------------------------------------------------
(* core/tools.ts: the access-tier gate *)

TIER_LEVELS == [t \in {"read-only", "read-execute", "full"} |->
                   IF t = "read-only" THEN 0
                   ELSE IF t = "read-execute" THEN 1 ELSE 2]

\* config.categories.includes(options.category): an entry of the allowlist
\* equals the category when it is that one run of characters.
includesCategory(list, category) ==
    \E i \in 1..Len(list) : list[i] = <<category>>

\* A faulty variant: the defaults win over the descriptor's annotations.
mergeAnnotations_DefaultsWin(defaults, overrides) ==
    [k \in (DOMAIN defaults) \cup (DOMAIN overrides) |->
        IF k \in DOMAIN defaults THEN defaults[k] ELSE overrides[k]]

\* {readOnlyHint: ..., destructiveHint: false, ...options.annotations}
mergeAnnotations(defaults, overrides) ==
    [k \in (DOMAIN defaults) \cup (DOMAIN overrides) |->
        IF k \in DOMAIN overrides THEN overrides[k] ELSE defaults[k]]

defaultAnnotations(options) ==
    [readOnlyHint |-> options.accessTier = "read-only", destructiveHint |-> FALSE]

\* The McpServer before any registration: the calls made to its
\* registerTool, in order.
NewServer == [created |-> TRUE, tools |-> <<>>, started |-> FALSE]
NoServer == [created |-> FALSE, tools |-> <<>>, started |-> FALSE]

\* Lines 63-84: the annotations are merged and server.registerTool is called.
callServerRegisterTool(srv, options) ==
    [srv EXCEPT !.tools =
        Append(@, [name |-> options.name,
                   annotations |-> mergeAnnotations(
                       defaultAnnotations(options), options.annotations)])]

\* Faulty variants of registerTool, each with one defect of the gate: the
\* tier filter left out, the tier comparison turned round, a tier that only
\* admits strictly lower requirements, and the category filter left out.
registerTool_NoTierCheck(srv, cfg, options) ==
    IF ~cfg.categories.isNull
            /\ ~includesCategory(cfg.categories.list, options.category)
    THEN [server |-> srv, registered |-> FALSE]
    ELSE [server |-> callServerRegisterTool(srv, options), registered |-> TRUE]

registerTool_TierInverted(srv, cfg, options) ==
    IF TIER_LEVELS[cfg.accessTier] > TIER_LEVELS[options.accessTier]
    THEN [server |-> srv, registered |-> FALSE]
    ELSE IF ~cfg.categories.isNull
            /\ ~includesCategory(cfg.categories.list, options.category)
    THEN [server |-> srv, registered |-> FALSE]
    ELSE [server |-> callServerRegisterTool(srv, options), registered |-> TRUE]

registerTool_TierOffByOne(srv, cfg, options) ==
    IF TIER_LEVELS[cfg.accessTier] <= TIER_LEVELS[options.accessTier]
    THEN [server |-> srv, registered |-> FALSE]
    ELSE IF ~cfg.categories.isNull
            /\ ~includesCategory(cfg.categories.list, options.category)
    THEN [server |-> srv, registered |-> FALSE]
    ELSE [server |-> callServerRegisterTool(srv, options), registered |-> TRUE]

registerTool_NoCategoryCheck(srv, cfg, options) ==
    IF TIER_LEVELS[cfg.accessTier] < TIER_LEVELS[options.accessTier]
    THEN [server |-> srv, registered |-> FALSE]
    ELSE [server |-> callServerRegisterTool(srv, options), registered |-> TRUE]

\* registerTool(server, config, options): [server, registered], the server
\* after the call and the value returned.
registerTool(srv, cfg, options) ==
    IF TIER_LEVELS[cfg.accessTier] < TIER_LEVELS[options.accessTier]
    THEN [server |-> srv, registered |-> FALSE]
    ELSE IF ~cfg.categories.isNull
            /\ ~includesCategory(cfg.categories.list, options.category)
    THEN [server |-> srv, registered |-> FALSE]
    ELSE [server |-> callServerRegisterTool(srv, options), registered |-> TRUE]

----------------------------------------------------------------------------
(* The tool modules: what each register*Tools function declares. verb and  *)
(* shape summarise the handler: the client verb it calls, and whether it   *)
(* awaits one call ("one"), two joined by Promise.all ("join"), or is the  *)
(* polymorphic write handler ("write"). context is the template of the     *)
(* context string the handler passes to handleKomodoError: its literal     *)
(* parts, each kept as one symbol, and its ${...} placeholders.            *)

\* registerServerTools: the descriptors it hands to registerTool, in order.
ServerToolsDescriptors ==
    <<
       [name |-> "komodo_list_servers",
        accessTier |-> "read-only",
        category |-> "servers",
        annotations |-> [readOnlyHint |-> TRUE, destructiveHint |-> FALSE, idempotentHint |-> TRUE],
        verb |-> "read", shape |-> "one",
        context |-> <<"listing servers">>],
       [name |-> "komodo_get_server",
        accessTier |-> "read-only",
        category |-> "servers",
        annotations |-> [readOnlyHint |-> TRUE, destructiveHint |-> FALSE, idempotentHint |-> TRUE],
        verb |-> "read", shape |-> "join",
        context |-> <<"getting server '", "${serverParam}", "'">>],
       [name |-> "komodo_get_server_stats",
        accessTier |-> "read-only",
        category |-> "servers",
        annotations |-> [readOnlyHint |-> TRUE, destructiveHint |-> FALSE, idempotentHint |-> TRUE],
        verb |-> "read", shape |-> "one",
        context |-> <<"getting stats for server '", "${serverParam}", "'">>],
       [name |-> "komodo_get_server_info",
        accessTier |-> "read-only",
        category |-> "servers",
        annotations |-> [readOnlyHint |-> TRUE, destructiveHint |-> FALSE, idempotentHint |-> TRUE],
        verb |-> "read", shape |-> "join",
        context |-> <<"getting info for server '", "${serverParam}", "'">>],
       [name |-> "komodo_prune_docker",
        accessTier |-> "read-execute",
        category |-> "servers",
        annotations |-> [readOnlyHint |-> FALSE, destructiveHint |-> TRUE, idempotentHint |-> TRUE],
        verb |-> "execute", shape |-> "one",
        context |-> <<"pruning ", "${resource_type}", " on server '", "${serverParam}", "'">>],
       [name |-> "komodo_delete_docker_resource",
        accessTier |-> "read-execute",
        category |-> "servers",
        annotations |-> [readOnlyHint |-> FALSE, destructiveHint |-> TRUE, idempotentHint |-> FALSE],
        verb |-> "execute", shape |-> "one",
        context |-> <<"deleting ", "${resource_type}", " '", "${name}", "' on server '", "${serverParam}", "'">>]
    >>

\* registerStackTools: the descriptors it hands to registerTool, in order.
StackToolsDescriptors ==
    <<
       [name |-> "komodo_list_stacks",
        accessTier |-> "read-only",
        category |-> "stacks",
        annotations |-> [readOnlyHint |-> TRUE, destructiveHint |-> FALSE, idempotentHint |-> TRUE],
        verb |-> "read", shape |-> "one",
        context |-> <<"listing stacks">>],
       [name |-> "komodo_get_stack",
        accessTier |-> "read-only",
        category |-> "stacks",
        annotations |-> [readOnlyHint |-> TRUE, destructiveHint |-> FALSE, idempotentHint |-> TRUE],
        verb |-> "read", shape |-> "join",
        context |-> <<"getting stack '", "${stack}", "'">>],
       [name |-> "komodo_get_stack_log",
        accessTier |-> "read-only",
        category |-> "stacks",
        annotations |-> [readOnlyHint |-> TRUE, destructiveHint |-> FALSE, idempotentHint |-> TRUE],
        verb |-> "read", shape |-> "one",
        context |-> <<"getting logs for stack '", "${stack}", "'">>],
       [name |-> "komodo_inspect_stack_container",
        accessTier |-> "read-only",
        category |-> "stacks",
        annotations |-> [readOnlyHint |-> TRUE, destructiveHint |-> FALSE, idempotentHint |-> TRUE],
        verb |-> "read", shape |-> "one",
        context |-> <<"inspecting container for service '", "${service}", "' in stack '", "${stack}", "'">>],
       [name |-> "komodo_list_stack_services",
        accessTier |-> "read-only",
        category |-> "stacks",
        annotations |-> [readOnlyHint |-> TRUE, destructiveHint |-> FALSE, idempotentHint |-> TRUE],
        verb |-> "read", shape |-> "one",
        context |-> <<"listing services for stack '", "${stack}", "'">>],
       [name |-> "komodo_get_stacks_summary",
        accessTier |-> "read-only",
        category |-> "stacks",
        annotations |-> [readOnlyHint |-> TRUE, destructiveHint |-> FALSE, idempotentHint |-> TRUE],
        verb |-> "read", shape |-> "one",
        context |-> <<"getting stacks summary">>],
       [name |-> "komodo_deploy_stack",
        accessTier |-> "read-execute",
        category |-> "stacks",
        annotations |-> [readOnlyHint |-> FALSE, destructiveHint |-> TRUE, idempotentHint |-> FALSE],
        verb |-> "execute", shape |-> "one",
        context |-> <<"deploying stack '", "${stack}", "'">>],
       [name |-> "komodo_pull_stack",
        accessTier |-> "read-execute",
        category |-> "stacks",
        annotations |-> [readOnlyHint |-> FALSE, destructiveHint |-> FALSE, idempotentHint |-> TRUE],
        verb |-> "execute", shape |-> "one",
        context |-> <<"pulling images for stack '", "${stack}", "'">>],
       [name |-> "komodo_stack_lifecycle",
        accessTier |-> "read-execute",
        category |-> "stacks",
        annotations |-> [readOnlyHint |-> FALSE, destructiveHint |-> TRUE, idempotentHint |-> FALSE],
        verb |-> "execute", shape |-> "one",
        context |-> <<"${action}", " stack '", "${stack}", "'">>],
       [name |-> "komodo_destroy_stack",
        accessTier |-> "read-execute",
        category |-> "stacks",
        annotations |-> [readOnlyHint |-> FALSE, destructiveHint |-> TRUE, idempotentHint |-> FALSE],
        verb |-> "execute", shape |-> "one",
        context |-> <<"destroying stack '", "${stack}", "'">>]
    >>

\* registerDeploymentTools: the descriptors it hands to registerTool, in order.
DeploymentToolsDescriptors ==
    <<
       [name |-> "komodo_list_deployments",
        accessTier |-> "read-only",
        category |-> "deployments",
        annotations |-> [readOnlyHint |-> TRUE, destructiveHint |-> FALSE, idempotentHint |-> TRUE],
        verb |-> "read", shape |-> "one",
        context |-> <<"listing deployments">>],
       [name |-> "komodo_get_deployment",
        accessTier |-> "read-only",
        category |-> "deployments",
        annotations |-> [readOnlyHint |-> TRUE, destructiveHint |-> FALSE, idempotentHint |-> TRUE],
        verb |-> "read", shape |-> "join",
        context |-> <<"getting deployment '", "${deployment}", "'">>],
       [name |-> "komodo_get_deployment_log",
        accessTier |-> "read-only",
        category |-> "deployments",
        annotations |-> [readOnlyHint |-> TRUE, destructiveHint |-> FALSE, idempotentHint |-> TRUE],
        verb |-> "read", shape |-> "one",
        context |-> <<"getting logs for deployment '", "${deployment}", "'">>],
       [name |-> "komodo_inspect_deployment_container",
        accessTier |-> "read-only",
        category |-> "deployments",
        annotations |-> [readOnlyHint |-> TRUE, destructiveHint |-> FALSE, idempotentHint |-> TRUE],
        verb |-> "read", shape |-> "one",
        context |-> <<"inspecting container for deployment '", "${deployment}", "'">>],
       [name |-> "komodo_get_deployments_summary",
        accessTier |-> "read-only",
        category |-> "deployments",
        annotations |-> [readOnlyHint |-> TRUE, destructiveHint |-> FALSE, idempotentHint |-> TRUE],
        verb |-> "read", shape |-> "one",
        context |-> <<"getting deployments summary">>],
       [name |-> "komodo_deploy_deployment",
        accessTier |-> "read-execute",
        category |-> "deployments",
        annotations |-> [readOnlyHint |-> FALSE, destructiveHint |-> TRUE, idempotentHint |-> FALSE],
        verb |-> "execute", shape |-> "one",
        context |-> <<"deploying deployment '", "${deployment}", "'">>],
       [name |-> "komodo_pull_deployment",
        accessTier |-> "read-execute",
        category |-> "deployments",
        annotations |-> [readOnlyHint |-> FALSE, destructiveHint |-> FALSE, idempotentHint |-> TRUE],
        verb |-> "execute", shape |-> "one",
        context |-> <<"pulling image for deployment '", "${deployment}", "'">>],
       [name |-> "komodo_deployment_lifecycle",
        accessTier |-> "read-execute",
        category |-> "deployments",
        annotations |-> [readOnlyHint |-> FALSE, destructiveHint |-> TRUE, idempotentHint |-> FALSE],
        verb |-> "execute", shape |-> "one",
        context |-> <<"${action}", " deployment '", "${deployment}", "'">>],
       [name |-> "komodo_destroy_deployment",
        accessTier |-> "read-execute",
        category |-> "deployments",
        annotations |-> [readOnlyHint |-> FALSE, destructiveHint |-> TRUE, idempotentHint |-> FALSE],
        verb |-> "execute", shape |-> "one",
        context |-> <<"destroying deployment '", "${deployment}", "'">>]
    >>

\* registerContainerTools: the descriptors it hands to registerTool, in order.
ContainerToolsDescriptors ==
    <<
       [name |-> "komodo_get_container_log",
        accessTier |-> "read-only",
        category |-> "containers",
        annotations |-> [readOnlyHint |-> TRUE, destructiveHint |-> FALSE, idempotentHint |-> TRUE],
        verb |-> "read", shape |-> "one",
        context |-> <<"getting container log for '", "${container}", "' on server '", "${serverParam}", "'">>]
    >>

\* registerBuildTools: the descriptors it hands to registerTool, in order.
BuildToolsDescriptors ==
    <<
       [name |-> "komodo_list_builds",
        accessTier |-> "read-only",
        category |-> "builds",
        annotations |-> [readOnlyHint |-> TRUE, destructiveHint |-> FALSE, idempotentHint |-> TRUE],
        verb |-> "read", shape |-> "one",
        context |-> <<"listing builds">>],
       [name |-> "komodo_get_build",
        accessTier |-> "read-only",
        category |-> "builds",
        annotations |-> [readOnlyHint |-> TRUE, destructiveHint |-> FALSE, idempotentHint |-> TRUE],
        verb |-> "read", shape |-> "join",
        context |-> <<"getting build '", "${build}", "'">>],
       [name |-> "komodo_run_build",
        accessTier |-> "read-execute",
        category |-> "builds",
        annotations |-> [readOnlyHint |-> FALSE, destructiveHint |-> FALSE, idempotentHint |-> FALSE],
        verb |-> "execute", shape |-> "one",
        context |-> <<"running build '", "${build}", "'">>],
       [name |-> "komodo_cancel_build",
        accessTier |-> "read-execute",
        category |-> "builds",
        annotations |-> [readOnlyHint |-> FALSE, destructiveHint |-> FALSE, idempotentHint |-> TRUE],
        verb |-> "execute", shape |-> "one",
        context |-> <<"cancelling build '", "${build}", "'">>]
    >>

\* registerRepoTools: the descriptors it hands to registerTool, in order.
RepoToolsDescriptors ==
    <<
       [name |-> "komodo_list_repos",
        accessTier |-> "read-only",
        category |-> "repos",
        annotations |-> [readOnlyHint |-> TRUE, destructiveHint |-> FALSE, idempotentHint |-> TRUE],
        verb |-> "read", shape |-> "one",
        context |-> <<"listing repos">>],
       [name |-> "komodo_get_repo",
        accessTier |-> "read-only",
        category |-> "repos",
        annotations |-> [readOnlyHint |-> TRUE, destructiveHint |-> FALSE, idempotentHint |-> TRUE],
        verb |-> "read", shape |-> "join",
        context |-> <<"getting repo '", "${repo}", "'">>],
       [name |-> "komodo_repo_clone_pull",
        accessTier |-> "read-execute",
        category |-> "repos",
        annotations |-> [readOnlyHint |-> FALSE, destructiveHint |-> TRUE, idempotentHint |-> FALSE],
        verb |-> "execute", shape |-> "one",
        context |-> <<"${action}", " repo '", "${repo}", "'">>]
    >>

\* registerProcedureTools: the descriptors it hands to registerTool, in order.
ProcedureToolsDescriptors ==
    <<
       [name |-> "komodo_list_procedures",
        accessTier |-> "read-only",
        category |-> "procedures",
        annotations |-> [readOnlyHint |-> TRUE, destructiveHint |-> FALSE, idempotentHint |-> TRUE],
        verb |-> "read", shape |-> "one",
        context |-> <<"listing procedures">>],
       [name |-> "komodo_get_procedure",
        accessTier |-> "read-only",
        category |-> "procedures",
        annotations |-> [readOnlyHint |-> TRUE, destructiveHint |-> FALSE, idempotentHint |-> TRUE],
        verb |-> "read", shape |-> "join",
        context |-> <<"getting procedure '", "${procedure}", "'">>],
       [name |-> "komodo_run_procedure",
        accessTier |-> "read-execute",
        category |-> "procedures",
        annotations |-> [readOnlyHint |-> FALSE, destructiveHint |-> TRUE, idempotentHint |-> FALSE],
        verb |-> "execute", shape |-> "one",
        context |-> <<"running procedure '", "${procedure}", "'">>]
    >>

\* registerActionTools: the descriptors it hands to registerTool, in order.
ActionToolsDescriptors ==
    <<
       [name |-> "komodo_list_actions",
        accessTier |-> "read-only",
        category |-> "actions",
        annotations |-> [readOnlyHint |-> TRUE, destructiveHint |-> FALSE, idempotentHint |-> TRUE],
        verb |-> "read", shape |-> "one",
        context |-> <<"listing actions">>],
       [name |-> "komodo_get_action",
        accessTier |-> "read-only",
        category |-> "actions",
        annotations |-> [readOnlyHint |-> TRUE, destructiveHint |-> FALSE, idempotentHint |-> TRUE],
        verb |-> "read", shape |-> "join",
        context |-> <<"getting action '", "${action}", "'">>],
       [name |-> "komodo_run_action",
        accessTier |-> "read-execute",
        category |-> "actions",
        annotations |-> [readOnlyHint |-> FALSE, destructiveHint |-> TRUE, idempotentHint |-> FALSE],
        verb |-> "execute", shape |-> "one",
        context |-> <<"running action '", "${action}", "'">>]
    >>

\* registerBuilderTools: the descriptors it hands to registerTool, in order.
BuilderToolsDescriptors ==
    <<
       [name |-> "komodo_list_builders",
        accessTier |-> "read-only",
        category |-> "builders",
        annotations |-> [readOnlyHint |-> TRUE, destructiveHint |-> FALSE, idempotentHint |-> TRUE],
        verb |-> "read", shape |-> "one",
        context |-> <<"listing builders">>],
       [name |-> "komodo_get_builder",
        accessTier |-> "read-only",
        category |-> "builders",
        annotations |-> [readOnlyHint |-> TRUE, destructiveHint |-> FALSE, idempotentHint |-> TRUE],
        verb |-> "read", shape |-> "one",
        context |-> <<"getting builder '", "${builder}", "'">>]
    >>

\* registerAlerterTools: the descriptors it hands to registerTool, in order.
AlerterToolsDescriptors ==
    <<
       [name |-> "komodo_list_alerters",
        accessTier |-> "read-only",
        category |-> "alerters",
        annotations |-> [readOnlyHint |-> TRUE, destructiveHint |-> FALSE, idempotentHint |-> TRUE],
        verb |-> "read", shape |-> "one",
        context |-> <<"listing alerters">>],
       [name |-> "komodo_get_alerter",
        accessTier |-> "read-only",
        category |-> "alerters",
        annotations |-> [readOnlyHint |-> TRUE, destructiveHint |-> FALSE, idempotentHint |-> TRUE],
        verb |-> "read", shape |-> "one",
        context |-> <<"getting alerter '", "${alerter}", "'">>]
    >>

\* registerResourceSyncTools: the descriptors it hands to registerTool, in order.
ResourceSyncToolsDescriptors ==
    <<
       [name |-> "komodo_list_resource_syncs",
        accessTier |-> "read-only",
        category |-> "resource-syncs",
        annotations |-> [readOnlyHint |-> TRUE, destructiveHint |-> FALSE, idempotentHint |-> TRUE],
        verb |-> "read", shape |-> "one",
        context |-> <<"listing resource syncs">>],
       [name |-> "komodo_get_resource_sync",
        accessTier |-> "read-only",
        category |-> "resource-syncs",
        annotations |-> [readOnlyHint |-> TRUE, destructiveHint |-> FALSE, idempotentHint |-> TRUE],
        verb |-> "read", shape |-> "join",
        context |-> <<"getting resource sync '", "${resource_sync}", "'">>],
       [name |-> "komodo_trigger_sync",
        accessTier |-> "read-execute",
        category |-> "resource-syncs",
        annotations |-> [readOnlyHint |-> FALSE, destructiveHint |-> TRUE, idempotentHint |-> FALSE],
        verb |-> "execute", shape |-> "one",
        context |-> <<"triggering sync '", "${resource_sync}", "'">>]
    >>

\* registerUpdateTools: the descriptors it hands to registerTool, in order.
UpdateToolsDescriptors ==
    <<
       [name |-> "komodo_list_updates",
        accessTier |-> "read-only",
        category |-> "updates",
        annotations |-> [readOnlyHint |-> TRUE, destructiveHint |-> FALSE, idempotentHint |-> TRUE],
        verb |-> "read", shape |-> "one",
        context |-> <<"listing updates">>],
       [name |-> "komodo_get_update",
        accessTier |-> "read-only",
        category |-> "updates",
        annotations |-> [readOnlyHint |-> TRUE, destructiveHint |-> FALSE, idempotentHint |-> TRUE],
        verb |-> "read", shape |-> "one",
        context |-> <<"getting update '", "${id}", "'">>]
    >>

\* A faulty variant: the write tool declared for the read-execute tier.
WriteToolsDescriptors_ReadExecute ==
    <<
       [name |-> "komodo_write_resource",
        accessTier |-> "read-execute",
        category |-> "write",
        annotations |-> [readOnlyHint |-> FALSE, destructiveHint |-> TRUE, idempotentHint |-> FALSE],
        verb |-> "write", shape |-> "write",
        context |-> <<"${action}", " ", "${resource_type}", "${name?}", "${id?}">>]
    >>

\* registerWriteTools: the descriptors it hands to registerTool, in order.
WriteToolsDescriptors ==
    <<
       [name |-> "komodo_write_resource",
        accessTier |-> "full",
        category |-> "write",
        annotations |-> [readOnlyHint |-> FALSE, destructiveHint |-> TRUE, idempotentHint |-> FALSE],
        verb |-> "write", shape |-> "write",
        context |-> <<"${action}", " ", "${resource_type}", "${name?}", "${id?}">>]
    >>

\* registerAllTools: the modules in the order it calls them.
ToolModules ==
    <<ServerToolsDescriptors, StackToolsDescriptors, DeploymentToolsDescriptors,
      ContainerToolsDescriptors, BuildToolsDescriptors, RepoToolsDescriptors,
      ProcedureToolsDescriptors, ActionToolsDescriptors, BuilderToolsDescriptors,
      AlerterToolsDescriptors, ResourceSyncToolsDescriptors,
      UpdateToolsDescriptors, WriteToolsDescriptors>>

AllDescriptors == Concat(ToolModules)

ToolNames == {AllDescriptors[i].name : i \in 1..Len(AllDescriptors)}

DescriptorByName ==
    [n \in ToolNames |->
        AllDescriptors[CHOOSE i \in 1..Len(AllDescriptors) : AllDescriptors[i].name = n]]

Descriptor(name) == DescriptorByName[name]

\* One register*Tools function: registerTool on each descriptor in turn.
\* state is [server, log]; log collects [name, registered] per call.
RECURSIVE registerModule(_, _, _)
registerModule(state, cfg, descriptors) ==
    IF descriptors = <<>> THEN state
    ELSE LET result == registerTool(state.server, cfg, Head(descriptors))
         IN  registerModule(
                [server |-> result.server,
                 log |-> Append(state.log,
                            [name |-> Head(descriptors).name,
                             registered |-> result.registered])],
                cfg, Tail(descriptors))

\* registerAllTools, from its i-th register*Tools call on.  Each call runs
\* to completion (next is its finished result) before the following one starts.
RECURSIVE registerModulesFrom(_, _, _)
registerModulesFrom(state, cfg, i) ==
    IF i > Len(ToolModules) THEN state
    ELSE CHOOSE final \in
            {registerModulesFrom(next, cfg, i + 1) :
                next \in {registerModule(state, cfg, ToolModules[i])}} : TRUE

\* registerAllTools from a fresh server: the whole sequence of modules.
registerAllTools(cfg) ==
    registerModulesFrom([server |-> NewServer, log |-> <<>>], cfg, 1)

\* The names a server has registered.
RegisteredNames(srv) == {srv.tools[i].name : i \in 1..Len(srv.tools)}

----------------------------------------------------------------------------
(* tools/write: the polymorphic write handler *)

RESOURCE_TYPES ==
    <<"Stack", "Deployment", "Build", "Repo", "Procedure", "Action",
      "Alerter", "Builder", "ResourceSync", "Variable">>

NonVariableTypes == {RESOURCE_TYPES[i] : i \in 1..Len(RESOURCE_TYPES)} \ {"Variable"}

createOps == [t \in NonVariableTypes |->
    CASE t = "Stack" -> "CreateStack" [] t = "Deployment" -> "CreateDeployment"
      [] t = "Build" -> "CreateBuild" [] t = "Repo" -> "CreateRepo"
      [] t = "Procedure" -> "CreateProcedure" [] t = "Action" -> "CreateAction"
      [] t = "Alerter" -> "CreateAlerter" [] t = "Builder" -> "CreateBuilder"
      [] t = "ResourceSync" -> "CreateResourceSync"]

updateOps == [t \in NonVariableTypes |->
    CASE t = "Stack" -> "UpdateStack" [] t = "Deployment" -> "UpdateDeployment"
      [] t = "Build" -> "UpdateBuild" [] t = "Repo" -> "UpdateRepo"
      [] t = "Procedure" -> "UpdateProcedure" [] t = "Action" -> "UpdateAction"
      [] t = "Alerter" -> "UpdateAlerter" [] t = "Builder" -> "UpdateBuilder"
      [] t = "ResourceSync" -> "UpdateResourceSync"]

deleteOps == [t \in NonVariableTypes \cup {"Variable"} |->
    CASE t = "Stack" -> "DeleteStack" [] t = "Deployment" -> "DeleteDeployment"
      [] t = "Build" -> "DeleteBuild" [] t = "Repo" -> "DeleteRepo"
      [] t = "Procedure" -> "DeleteProcedure" [] t = "Action" -> "DeleteAction"
      [] t = "Alerter" -> "DeleteAlerter" [] t = "Builder" -> "DeleteBuilder"
      [] t = "ResourceSync" -> "DeleteResourceSync" [] t = "Variable" -> "DeleteVariable"]

\* A text response of a handler.
TextResponse(text, isError) ==
    [content |-> << [type |-> "text", text |-> text] >>, isError |-> isError]

(* What a handle* function does before its first await: either it returns *)
(* a validation error (no client call), or it goes on to the write         *)
(* operations ops, awaited one after the other.                            *)
(* target is the parameter the writes address the resource by: its key      *)
(* ("name" or "id") and the value given for it.                             *)
NoTarget == [key |-> "", value |-> Undefined]
ByName(value) == [key |-> "name", value |-> value]
ById(value) == [key |-> "id", value |-> value]
Invalid(text) ==
    [invalid |-> TRUE, response |-> TextResponse(text, TRUE), ops |-> <<>>,
     target |-> NoTarget]
Writes(ops, target) ==
    [invalid |-> FALSE, response |-> NoResponse, ops |-> ops, target |-> target]

handleCreate(args) ==
    IF Falsy(args.name)
    THEN Invalid(<<"Error: 'name' is required when creating a ", args.resource_type, ".">>)
    ELSE IF args.resource_type = "Variable"
    THEN Writes(<<"CreateVariable">>, ByName(args.name))
    ELSE Writes(<<createOps[args.resource_type]>>, ByName(args.name))

\* name || id
nameOrId(args) == IF ~Falsy(args.name) THEN args.name ELSE args.id

\* A faulty variant: every resource type, Variable included, is updated by id.
handleUpdate_IdForAll(args) ==
    IF ~args.config.set
    THEN Invalid(<<"Error: 'config' is required when updating a ", args.resource_type, ".">>)
    ELSE IF Falsy(args.id)
    THEN Invalid(<<"Error: 'id' is required when updating a ", args.resource_type, ".">>)
    ELSE IF args.resource_type = "Variable"
    THEN Writes(
                (IF "value" \in args.config.fields
                 THEN <<"UpdateVariableValue">> ELSE <<>>)
                \o (IF "description" \in args.config.fields
                    THEN <<"UpdateVariableDescription">> ELSE <<>>)
                \o (IF "is_secret" \in args.config.fields
                    THEN <<"UpdateVariableIsSecret">> ELSE <<>>),
                ById(args.id))
    ELSE Writes(<<updateOps[args.resource_type]>>, ById(args.id))

handleUpdate(args) ==
    IF ~args.config.set
    THEN Invalid(<<"Error: 'config' is required when updating a ", args.resource_type, ".">>)
    ELSE IF args.resource_type = "Variable"
    THEN IF Falsy(nameOrId(args))
         THEN Invalid(<<"Error: 'name' (or 'id') is required when updating a Variable.">>)
         ELSE Writes(
                (IF "value" \in args.config.fields
                 THEN <<"UpdateVariableValue">> ELSE <<>>)
                \o (IF "description" \in args.config.fields
                    THEN <<"UpdateVariableDescription">> ELSE <<>>)
                \o (IF "is_secret" \in args.config.fields
                    THEN <<"UpdateVariableIsSecret">> ELSE <<>>),
                ByName(nameOrId(args)))
    ELSE IF Falsy(args.id)
    THEN Invalid(<<"Error: 'id' is required when updating a ", args.resource_type, ".">>)
    ELSE Writes(<<updateOps[args.resource_type]>>, ById(args.id))

\* A faulty variant: delete of a non-Variable resource without the id check.
handleDelete_NoIdCheck(args) ==
    IF args.resource_type = "Variable"
    THEN IF Falsy(nameOrId(args))
         THEN Invalid(<<"Error: 'name' (or 'id') is required when deleting a Variable.">>)
         ELSE Writes(<<"DeleteVariable">>, ByName(nameOrId(args)))
    ELSE Writes(<<deleteOps[args.resource_type]>>, ById(args.id))

handleDelete(args) ==
    IF args.resource_type = "Variable"
    THEN IF Falsy(nameOrId(args))
         THEN Invalid(<<"Error: 'name' (or 'id') is required when deleting a Variable.">>)
         ELSE Writes(<<"DeleteVariable">>, ByName(nameOrId(args)))
    ELSE IF Falsy(args.id)
    THEN Invalid(<<"Error: 'id' is required when deleting a ", args.resource_type, ".">>)
    ELSE Writes(<<deleteOps[args.resource_type]>>, ById(args.id))

\* The switch of the komodo_write_resource handler.
writePlan(args) ==
    IF args.action = "create" THEN handleCreate(args)
    ELSE IF args.action = "update" THEN handleUpdate(args)
    ELSE handleDelete(args)

----------------------------------------------------------------------------
(* The context string a handler passes to handleKomodoError *)

\* One part of a context template, with the call's arguments filled in.
contextPart(part, args) ==
    IF part = "${action}" THEN <<args.action>>
    ELSE IF part = "${resource_type}" THEN <<args.resource_type>>
    ELSE IF part = "${name?}"
         THEN (IF ~Falsy(args.name) THEN <<" '">> \o args.name.value \o <<"'">> ELSE <<>>)
    ELSE IF part = "${id?}"
         THEN (IF ~Falsy(args.id) THEN <<" (">> \o args.id.value \o <<")">> ELSE <<>>)
    ELSE IF part = "${name}" THEN args.name.value
    ELSE IF part \in {"${server}", "${serverParam}", "${stack}", "${service}",
                      "${deployment}", "${container}", "${build}", "${repo}",
                      "${procedure}", "${alerter}", "${builder}",
                      "${resource_sync}", "${id}"}
         THEN args.arg
    ELSE <<part>>

RECURSIVE contextOf(_, _)
contextOf(template, args) ==
    IF template = <<>> THEN <<>>
    ELSE contextPart(Head(template), args) \o contextOf(Tail(template), args)

----------------------------------------------------------------------------
(* The inputs of a run *)

URL_TEXT == <<"h", ":", "/", "/", "k", "/">>
KEY_TEXT == <<"K", "-", "1">>
SECRET_TEXT == <<"S", "-", "2">>

\* The environments a run can start from: every required variable absent,
\* empty or set (the two credentials equal or different), the tier variable
\* absent, valid or not, and the category variable in its shapes.
Environments ==
    [KOMODO_URL : {Undefined, Defined(<<>>), Defined(URL_TEXT)},
     KOMODO_API_KEY : {Undefined, Defined(<<>>), Defined(KEY_TEXT)},
     KOMODO_API_SECRET : {Undefined, Defined(<<>>), Defined(KEY_TEXT), Defined(SECRET_TEXT)},
     KOMODO_ACCESS_TIER : {UndefinedTier, Defined(""), Defined("read-only"),
                           Defined("read-execute"), Defined("full"),
                           Defined("readonly")},
     KOMODO_CATEGORIES : {Undefined, Defined(<<>>),
                          Defined(<<"servers">>),
                          Defined(<<" ", "write", ",", ",", "repos", " ">>),
                          Defined(<<",", " ">>)},
     DEBUG : {Undefined}]

\* The values a client call rejects with in a run under cfg: messages that
\* echo the credentials, as a failed request does, in each shape
\* handleKomodoError distinguishes.
RejectValues(cfg) ==
    {ErrorValue("Error", <<"4", "0", "1", " ">> \o cfg.apiKey \o <<" ">> \o cfg.apiSecret),
     ErrorValue("object", <<"\"">> \o cfg.apiSecret),
     ErrorValue("string", <<"X", "-", "A", "p", "i", "-", "K", "e", "y", ":", " ">>
                          \o cfg.apiKey \o cfg.apiKey),
     ErrorValue("messageObject", <<"b", "u", "s", "y">>),
     ErrorValue("undefined", <<>>),
     ErrorValue("null", <<>>),
     ErrorValue("circular", <<>>)}

\* No rejection value: the call has not rejected.
NoError == ErrorValue("none", <<>>)

NoWriteConfig == [set |-> FALSE, fields |-> {}]

\* The arguments of a call to a tool other than komodo_write_resource.
\* The arguments of a call to the other tools: the resource the tool is
\* asked about is named by any text the caller likes, the text of a
\* credential included.
PlainArgs ==
    [arg : {<<"a">>, SECRET_TEXT}, action : {"pull"}, resource_type : {"images"},
     name : {Defined(<<"n">>)}, id : {Undefined}, config : {NoWriteConfig}]

\* The arguments of a call to komodo_write_resource.
WriteArgs ==
    [arg : {<<>>},
     action : {"create", "update", "delete"},
     resource_type : {"Stack", "Variable"},
     name : {Undefined, Defined(<<"n">>)},
     id : {Undefined, Defined(<<"i">>)},
     config : {NoWriteConfig,
               [set |-> TRUE, fields |-> {}],
               [set |-> TRUE, fields |-> {"value", "is_secret"}]}]

Slots == {1}

NoClient == [created |-> FALSE, key |-> <<>>, secret |-> <<>>]

IdleCall ==
    [status |-> "idle", tool |-> "", args |-> CHOOSE a \in PlainArgs : TRUE,
     pending |-> {}, results |-> {}, todo |-> <<>>, sent |-> <<>>,
     written |-> 0,
     rejected |-> FALSE, error |-> NoError, wrapThrew |-> FALSE,
     responses |-> 0, response |-> NoResponse]

\* The formatted text of a success response (core/formatters, not modelled).
FormattedText == <<"<formatted>">>

----------------------------------------------------------------------------
(* part_004: main() *)

Init ==
    /\ env \in Environments
    /\ pc = "loadConfig"
    /\ config = NoConfig
    /\ SENSITIVE_PATTERNS = <<>>
    /\ client = NoClient
    /\ server = NoServer
    /\ regLog = <<>>
    /\ nextModule = 1
    /\ exitCode = {}
    /\ stderr = <<>>
    /\ issued = {}
    /\ calls = [s \in Slots |-> IdleCall]
    /\ message = <<>>
    /\ sanitized = <<>>
    /\ resanitized = <<>>

sanVars == <<message, sanitized, resanitized>>

\* main, lines 31-37: loadConfig; on failure the message is logged and the
\* process exits with status 1.
LoadConfig ==
    /\ pc = "loadConfig"
    /\ IF loadConfig(env).threw
       THEN /\ stderr' = Append(stderr, loadConfig(env).message)
            /\ exitCode' = {1}
            /\ pc' = "exited"
            /\ UNCHANGED config
       ELSE /\ config' = loadConfig(env).config
            /\ pc' = "createClient:1"
            /\ UNCHANGED <<stderr, exitCode>>
    /\ UNCHANGED <<env, SENSITIVE_PATTERNS, client, server, regLog, nextModule,
                   issued, calls, sanVars>>

\* createClient: the order of its three statements.
\* A faulty variant: the client is constructed before the credentials are
\* registered.
createClientSteps_ConstructFirst == <<"construct", "registerKey", "registerSecret">>

createClientSteps == <<"registerKey", "registerSecret", "construct">>

CreateClientPc == <<"createClient:1", "createClient:2", "createClient:3">>

\* main line 39: createClient(config), one statement at a time.
CreateClientStep ==
    \E i \in 1..Len(CreateClientPc) :
        /\ pc = CreateClientPc[i]
        /\ pc' = IF i < Len(CreateClientPc) THEN CreateClientPc[i + 1]
                 ELSE "validateConnection"
        /\ IF createClientSteps[i] = "registerKey"
           THEN /\ SENSITIVE_PATTERNS' =
                        registerSensitivePattern(SENSITIVE_PATTERNS, config.apiKey)
                /\ UNCHANGED client
           ELSE IF createClientSteps[i] = "registerSecret"
           THEN /\ SENSITIVE_PATTERNS' =
                        registerSensitivePattern(SENSITIVE_PATTERNS, config.apiSecret)
                /\ UNCHANGED client
           ELSE /\ client' = [created |-> TRUE, key |-> config.apiKey,
                              secret |-> config.apiSecret]
                /\ UNCHANGED SENSITIVE_PATTERNS
        /\ UNCHANGED <<env, config, server, regLog, nextModule, exitCode, stderr,
                       issued, calls, sanVars>>

\* validateConnection line 53: client.read("GetVersion", {}) is issued.
ValidateConnectionIssue ==
    /\ pc = "validateConnection"
    /\ pc' = "awaitVersion"
    /\ UNCHANGED <<env, config, SENSITIVE_PATTERNS, client, server, regLog,
                   nextModule, exitCode, stderr, issued, calls, sanVars>>

\* validateConnection lines 53-56: GetVersion resolved.
ValidateConnectionResolve ==
    /\ pc = "awaitVersion"
    /\ pc' = "createServer"
    /\ UNCHANGED <<env, config, SENSITIVE_PATTERNS, client, server, regLog,
                   nextModule, exitCode, stderr, issued, calls, sanVars>>

\* A faulty variant: the details of the failure are printed as received.
ValidateConnectionReject_Unsanitized ==
    /\ pc = "awaitVersion"
    /\ \E error \in RejectValues(config) :
        stderr' = stderr
            \o << <<"Failed to connect to Komodo at ">> \o config.url,
                  <<"Check that KOMODO_URL is correct and Komodo Core is running.">> >>
            \o (IF instanceofError(error)
                THEN << <<"Details: ">> \o error.text >>
                ELSE <<>>)
    /\ exitCode' = {1}
    /\ pc' = "exited"
    /\ UNCHANGED <<env, config, SENSITIVE_PATTERNS, client, server, regLog,
                   nextModule, issued, calls, sanVars>>

\* validateConnection lines 57-66: GetVersion rejected.
ValidateConnectionReject ==
    /\ pc = "awaitVersion"
    /\ \E error \in RejectValues(config) :
        stderr' = stderr
            \o << <<"Failed to connect to Komodo at ">> \o config.url,
                  <<"Check that KOMODO_URL is correct and Komodo Core is running.">> >>
            \o (IF instanceofError(error)
                THEN << <<"Details: ">> \o sanitizeWith(SENSITIVE_PATTERNS, error.text) >>
                ELSE <<>>)
    /\ exitCode' = {1}
    /\ pc' = "exited"
    /\ UNCHANGED <<env, config, SENSITIVE_PATTERNS, client, server, regLog,
                   nextModule, issued, calls, sanVars>>

\* A faulty variant: the server is started as soon as it is created, before
\* registerAllTools.
CreateServer_StartsBeforeRegistering ==
    /\ pc = "createServer"
    /\ server' = [NewServer EXCEPT !.started = TRUE]
    /\ nextModule' = 1
    /\ pc' = "registerAllTools"
    /\ UNCHANGED <<env, config, SENSITIVE_PATTERNS, client, regLog, exitCode,
                   stderr, issued, calls, sanVars>>

\* main line 44: createServer().
CreateServer ==
    /\ pc = "createServer"
    /\ server' = NewServer
    /\ nextModule' = 1
    /\ pc' = "registerAllTools"
    /\ UNCHANGED <<env, config, SENSITIVE_PATTERNS, client, regLog, exitCode,
                   stderr, issued, calls, sanVars>>

\* main line 45, registerAllTools: the next register*Tools call.
RegisterNextModule ==
    /\ pc = "registerAllTools"
    /\ nextModule <= Len(ToolModules)
    /\ server' = registerModule([server |-> server, log |-> regLog], config,
                                ToolModules[nextModule]).server
    /\ regLog' = registerModule([server |-> server, log |-> regLog], config,
                                ToolModules[nextModule]).log
    /\ nextModule' = nextModule + 1
    /\ pc' = IF nextModule = Len(ToolModules) THEN "startServer" ELSE pc
    /\ UNCHANGED <<env, config, SENSITIVE_PATTERNS, client, exitCode, stderr,
                   issued, calls, sanVars>>

\* main line 46: startServer(server); the server serves requests from here.
StartServer ==
    /\ pc = "startServer"
    /\ server' = [server EXCEPT !.started = TRUE]
    /\ pc' = "serving"
    /\ UNCHANGED <<env, config, SENSITIVE_PATTERNS, client, regLog, nextModule,
                   exitCode, stderr, issued, calls, sanVars>>

----------------------------------------------------------------------------
(* Tool calls: the handlers the server dispatches to once it serves *)

mainVars == <<env, pc, config, SENSITIVE_PATTERNS, client, server, regLog,
              nextModule, exitCode, stderr>>

\* A handler that has returned its response.
Returned(call, response) ==
    [call EXCEPT !.status = "returned", !.pending = {}, !.todo = <<>>,
                 !.responses = @ + 1, !.response = response]

\* A handler whose promise rejected: the exception left the handler.
Escaped(call) ==
    [call EXCEPT !.status = "escaped", !.pending = {}, !.todo = <<>>]

\* A client call as the handler issues it: the operation, the parameter it
\* addresses the resource by and, for the handlers whose operations are
\* known by the client method only, its position among the client calls of
\* the handler (1 for a named write operation).
Request(op, part, target) == [op |-> op, part |-> part, target |-> target]

\* The client call(s) of a handler that reads or executes with its argument.
ArgRequest(name, part, args) ==
    Request(Descriptor(name).verb, part, [key |-> "arg", value |-> Defined(args.arg)])

\* A handler with one await: the call is issued, the handler awaits it.
DispatchOne(s) ==
    /\ pc = "serving"
    /\ calls[s].status = "idle"
    /\ \E name \in RegisteredNames(server), args \in PlainArgs :
        /\ Descriptor(name).shape = "one"
        /\ issued' = issued \cup {Descriptor(name).verb}
        /\ calls' = [calls EXCEPT ![s] =
                        [IdleCall EXCEPT !.status = "awaiting", !.tool = name,
                                         !.args = args, !.pending = {1},
                                         !.sent = <<ArgRequest(name, 1, args)>>]]
    /\ UNCHANGED <<mainVars, sanVars>>

\* A handler that awaits Promise.all of two reads: both are issued before
\* the await.
DispatchJoin(s) ==
    /\ pc = "serving"
    /\ calls[s].status = "idle"
    /\ \E name \in RegisteredNames(server), args \in PlainArgs :
        /\ Descriptor(name).shape = "join"
        /\ issued' = issued \cup {Descriptor(name).verb}
        /\ calls' = [calls EXCEPT ![s] =
                        [IdleCall EXCEPT !.status = "awaiting", !.tool = name,
                                         !.args = args, !.pending = {1, 2},
                                         !.sent = <<ArgRequest(name, 1, args),
                                                    ArgRequest(name, 2, args)>>]]
    /\ UNCHANGED <<mainVars, sanVars>>

\* The komodo_write_resource handler up to its first await, called with
\* arguments of the given set: a validation error or an update with nothing
\* to write returns at once, otherwise the first write is issued.
DispatchWriteWith(s, arguments) ==
    /\ pc = "serving"
    /\ calls[s].status = "idle"
    /\ \E name \in RegisteredNames(server), args \in arguments :
        /\ Descriptor(name).shape = "write"
        /\ IF writePlan(args).invalid
           THEN /\ calls' = [calls EXCEPT ![s] =
                                Returned([IdleCall EXCEPT !.tool = name, !.args = args],
                                         writePlan(args).response)]
                /\ UNCHANGED issued
           ELSE IF writePlan(args).ops = <<>>
           THEN /\ calls' = [calls EXCEPT ![s] =
                                Returned([IdleCall EXCEPT !.tool = name, !.args = args],
                                         TextResponse(FormattedText, FALSE))]
                /\ UNCHANGED issued
           ELSE /\ calls' = [calls EXCEPT ![s] =
                                [IdleCall EXCEPT !.status = "awaiting", !.tool = name,
                                                 !.args = args, !.pending = {1},
                                                 !.todo = Tail(writePlan(args).ops),
                                                 !.sent = <<Request(Head(writePlan(args).ops), 1,
                                                                    writePlan(args).target)>>]]
                /\ issued' = issued \cup {Descriptor(name).verb}
    /\ UNCHANGED <<mainVars, sanVars>>

DispatchWrite(s) == DispatchWriteWith(s, WriteArgs)

\* A client call of the handler resolves: the handler goes on to its next
\* write, keeps waiting for the other call of a join, or formats and returns.
CallResolve(s) ==
    /\ calls[s].status = "awaiting"
    /\ \E i \in calls[s].pending :
        calls' = [calls EXCEPT ![s] =
            IF calls[s].pending # {i}
            THEN [@ EXCEPT !.pending = @ \ {i}, !.results = @ \cup {i}]
            ELSE IF calls[s].todo # <<>>
            THEN [@ EXCEPT !.todo = Tail(@), !.written = @ + 1,
                           !.sent = Append(@, Request(Head(calls[s].todo), 1,
                                                      writePlan(calls[s].args).target))]
            ELSE Returned([@ EXCEPT !.results = @ \cup {i},
                              !.written =
                                  IF Descriptor(calls[s].tool).shape = "write"
                                  THEN @ + 1 ELSE @],
                          TextResponse(FormattedText, FALSE))]
    /\ UNCHANGED <<mainVars, issued, sanVars>>

\* A faulty variant: the handler issues the rejected client call once more.
CallReject_Retry(s) ==
    /\ calls[s].status = "awaiting"
    /\ Len(calls[s].sent) < 4
    /\ calls' = [calls EXCEPT ![s] =
                    [@ EXCEPT !.sent = Append(@, @[Len(@)])]]
    /\ UNCHANGED <<mainVars, issued, sanVars>>

\* A faulty variant: the context of the error response is kept in a place
\* the handlers share, so the catch block reads the context of whichever
\* other call is in flight.
CallReject_SharedContext(s) ==
    /\ calls[s].status = "awaiting"
    /\ \E i \in calls[s].pending, error \in RejectValues(config) :
        LET others == {t \in DOMAIN calls : t # s /\ calls[t].status = "awaiting"}
            last == IF others = {} THEN s ELSE CHOOSE t \in others : TRUE
            wrapped == handleKomodoError(SENSITIVE_PATTERNS,
                           contextOf(Descriptor(calls[last].tool).context,
                                     calls[last].args),
                           error)
        IN  calls' = [calls EXCEPT ![s] =
                IF wrapped.threw
                THEN Escaped([@ EXCEPT !.rejected = TRUE, !.error = error,
                                       !.wrapThrew = TRUE])
                ELSE Returned([@ EXCEPT !.rejected = TRUE, !.error = error],
                              wrapped.response)]
    /\ UNCHANGED <<mainVars, issued, sanVars>>

\* A client call of the handler rejects: the catch block of the handler
\* returns handleKomodoError(context, error), or lets what that throws out.
CallReject(s) ==
    /\ calls[s].status = "awaiting"
    /\ \E i \in calls[s].pending, error \in RejectValues(config) :
        LET wrapped == handleKomodoError(SENSITIVE_PATTERNS,
                           contextOf(Descriptor(calls[s].tool).context, calls[s].args),
                           error)
        IN  calls' = [calls EXCEPT ![s] =
                IF wrapped.threw
                THEN Escaped([@ EXCEPT !.rejected = TRUE, !.error = error,
                                       !.wrapThrew = TRUE])
                ELSE Returned([@ EXCEPT !.rejected = TRUE, !.error = error],
                              wrapped.response)]
    /\ UNCHANGED <<mainVars, issued, sanVars>>

\* The server has sent the outcome of the call to the peer; the slot is free
\* for the next call.
Release(s) ==
    /\ calls[s].status \in {"returned", "escaped"}
    /\ calls' = [calls EXCEPT ![s] = IdleCall]
    /\ UNCHANGED <<mainVars, issued, sanVars>>

Next ==
    \/ LoadConfig
    \/ CreateClientStep
    \/ ValidateConnectionIssue
    \/ ValidateConnectionResolve
    \/ ValidateConnectionReject
    \/ CreateServer
    \/ RegisterNextModule
    \/ StartServer
    \/ \E s \in Slots : DispatchOne(s)
    \/ \E s \in Slots : DispatchJoin(s)
    \/ \E s \in Slots : DispatchWrite(s)
    \/ \E s \in Slots : CallResolve(s)
    \/ \E s \in Slots : CallReject(s)
    \/ \E s \in Slots : Release(s)

Spec == Init /\ [][Next]_vars

----------------------------------------------------------------------------
(* The sanitizer on its own: a registry of up to MaxSecrets patterns, a     *)
(* message put together from up to MaxChunks pieces, then sanitizeMessage   *)
(* applied to the message and to its own output.                            *)

MaxSecrets == 2
MaxChunks == 3

\* The strings registered as secrets: a key as Komodo issues them, a word
\* of a header name, and two characters of the redaction token.
SecretChoices == {KEY_TEXT, <<"k", "e", "y">>, <<"D", "]">>}

\* The pieces a message is made of.
Chunks ==
    SecretChoices
    \cup {<<" ">>, <<"X", "-", "A", "P", "I", "-", "K", "E", "Y", ":">>,
          AUTHORIZATION, <<"v">>}

SanInit ==
    /\ env = CHOOSE e \in Environments : TRUE
    /\ pc = "sanitizer"
    /\ config = NoConfig
    /\ SENSITIVE_PATTERNS = <<>>
    /\ client = NoClient
    /\ server = NoServer
    /\ regLog = <<>>
    /\ nextModule = 1
    /\ exitCode = {}
    /\ stderr = <<>>
    /\ issued = {}
    /\ calls = [s \in Slots |-> IdleCall]
    /\ message = <<>>
    /\ sanitized = <<>>
    /\ resanitized = <<>>

otherVars == <<env, config, client, server, regLog, nextModule, exitCode,
               stderr, issued, calls>>

\* registerSensitivePattern(pattern), before any message is sanitized.
SanRegister ==
    /\ pc = "sanitizer"
    /\ message = <<>>
    /\ Len(SENSITIVE_PATTERNS) < MaxSecrets
    /\ \E pattern \in SecretChoices \cup {<<>>} :
        SENSITIVE_PATTERNS' = registerSensitivePattern(SENSITIVE_PATTERNS, pattern)
    /\ UNCHANGED <<otherVars, pc, sanVars>>

\* The message grows by one piece.
SanAppend ==
    /\ pc = "sanitizer"
    /\ Len(message) < MaxChunks
    /\ \E chunk \in Chunks : message' = Append(message, chunk)
    /\ UNCHANGED <<otherVars, pc, SENSITIVE_PATTERNS, sanitized, resanitized>>

\* sanitizeMessage(message), and sanitizeMessage of what it returned.
SanSanitize ==
    /\ pc = "sanitizer"
    /\ pc' = "sanitized"
    /\ sanitized' = sanitizeWith(SENSITIVE_PATTERNS, Concat(message))
    /\ resanitized' = sanitizeWith(SENSITIVE_PATTERNS,
                                   sanitizeWith(SENSITIVE_PATTERNS, Concat(message)))
    /\ UNCHANGED <<otherVars, SENSITIVE_PATTERNS, message>>

SanNext == SanRegister \/ SanAppend \/ SanSanitize

SanSpec == SanInit /\ [][SanNext]_vars

----------------------------------------------------------------------------
(* Properties *)

Tiers == {"read-only", "read-execute", "full"}

RegistrationDone == pc \in {"startServer", "serving"}

\* The set of strings an allowlist holds.
AllowedCategories(cfg) == {cfg.categories.list[i] : i \in 1..Len(cfg.categories.list)}

\* A descriptor passes both filters of the gate under cfg.
PassesGate(cfg, d) ==
    /\ TIER_LEVELS[cfg.accessTier] >= TIER_LEVELS[d.accessTier]
    /\ (cfg.categories.isNull \/ <<d.category>> \in AllowedCategories(cfg))

\* How many times the server's registration primitive was called for name.
PrimitiveCalls(name) ==
    Cardinality({i \in 1..Len(server.tools) : server.tools[i].name = name})

\* C1: under tier read-only the tool handlers only ever issue client.read
\* calls (no execute, no write); under tier read-execute they never issue a
\* client.write call.
C1_TierBoundsClientVerbs ==
    /\ config.accessTier = "read-only" => issued \subseteq {"read"}
    /\ config.accessTier = "read-execute" => "write" \notin issued

\* C1 witness: a read-only server has served a tool call to its end.
C1_Witness ==
    /\ config.accessTier = "read-only"
    /\ issued = {"read"}
    /\ \E s \in Slots : calls[s].status = "returned"

\* C2: registerTool calls the registration primitive exactly once and
\* returns true when the descriptor passes the tier filter and the category
\* filter, and otherwise calls it zero times and returns false; every
\* descriptor goes through it once; with allowlist ["servers"] only tools of
\* category servers are registered.
C2_RegisterToolIffBothFilters ==
    /\ \A i \in 1..Len(regLog) :
        /\ regLog[i].registered = PassesGate(config, Descriptor(regLog[i].name))
        /\ PrimitiveCalls(regLog[i].name) = IF regLog[i].registered THEN 1 ELSE 0
    /\ RegistrationDone =>
        /\ Len(regLog) = Len(AllDescriptors)
        /\ \A i \in 1..Len(regLog) : regLog[i].name = AllDescriptors[i].name
    /\ config.categories = CategoryList(<< <<"servers">> >>) =>
        \A n \in RegisteredNames(server) : Descriptor(n).category = "servers"

\* C2 witness: registration ran to its end under an allowlist, registering
\* some tools and skipping others.
C2_Witness ==
    /\ RegistrationDone
    /\ config.categories = CategoryList(<< <<"servers">> >>)
    /\ \E i, j \in 1..Len(regLog) : regLog[i].registered /\ ~regLog[j].registered

\* C3: with the same allowlist, the tools registered under a tier are a
\* subset of the tools registered under any tier that is not lower.
C3_TierMonotonicity ==
    pc = "startServer" =>
        \A t \in Tiers :
            /\ TIER_LEVELS[config.accessTier] <= TIER_LEVELS[t] =>
                RegisteredNames(server) \subseteq
                    RegisteredNames(registerAllTools([config EXCEPT !.accessTier = t]).server)
            /\ TIER_LEVELS[t] <= TIER_LEVELS[config.accessTier] =>
                RegisteredNames(registerAllTools([config EXCEPT !.accessTier = t]).server)
                    \subseteq RegisteredNames(server)

\* C3 witness: a read-only run registered tools, strictly fewer than the
\* same configuration at tier full registers.
C3_Witness ==
    /\ pc = "startServer"
    /\ config.accessTier = "read-only"
    /\ RegisteredNames(server) # {}
    /\ RegisteredNames(server) #
        RegisteredNames(registerAllTools([config EXCEPT !.accessTier = "full"]).server)

\* C4 as stated: a descriptor that requires tier full is registered exactly
\* when the configured tier is full.
C4_Original ==
    RegistrationDone =>
        \A i \in 1..Len(AllDescriptors) :
            AllDescriptors[i].accessTier = "full" =>
                (AllDescriptors[i].name \in RegisteredNames(server)
                    <=> config.accessTier = "full")

\* C4 amended: a descriptor that requires tier full is registered exactly
\* when the configured tier is full and the category allowlist is null or
\* holds its category; under read-only and read-execute it is never
\* registered.
C4_FullTierDescriptor ==
    RegistrationDone =>
        \A i \in 1..Len(AllDescriptors) :
            AllDescriptors[i].accessTier = "full" =>
                /\ AllDescriptors[i].name \in RegisteredNames(server)
                    <=> /\ config.accessTier = "full"
                        /\ \/ config.categories.isNull
                           \/ <<AllDescriptors[i].category>> \in AllowedCategories(config)
                /\ config.accessTier \in {"read-only", "read-execute"} =>
                    AllDescriptors[i].name \notin RegisteredNames(server)

\* C4 witness: under tier full and an allowlist that names its category,
\* the full-tier tool is registered.
C4_Witness ==
    /\ RegistrationDone
    /\ config.accessTier = "full"
    /\ ~config.categories.isNull
    /\ "komodo_write_resource" \in RegisteredNames(server)

\* C5: the output of sanitizeMessage contains no registered secret.
C5_NoSecretInOutput ==
    pc = "sanitized" =>
        \A i \in 1..Len(SENSITIVE_PATTERNS) : ~Contains(sanitized, SENSITIVE_PATTERNS[i])

\* C6: sanitizeMessage is idempotent: sanitizing its output changes nothing.
C6_Idempotent == pc = "sanitized" => resanitized = sanitized

\* C7: handleKomodoError never throws, whatever the error value is.
C7_WrapErrorNeverThrows == \A s \in Slots : ~calls[s].wrapThrew

\* C8: both credentials are in the registry before the client exists, so
\* before the connectivity check or any tool handler can issue a call or
\* sanitize an error.
C8_CredentialsRegisteredFirst ==
    /\ client.created =>
        /\ \E i \in 1..Len(SENSITIVE_PATTERNS) : SENSITIVE_PATTERNS[i] = client.key
        /\ \E i \in 1..Len(SENSITIVE_PATTERNS) : SENSITIVE_PATTERNS[i] = client.secret
    /\ pc \in {"validateConnection", "awaitVersion", "createServer",
               "registerAllTools", "startServer", "serving"} => client.created
    /\ (issued # {} \/ \E s \in Slots : calls[s].status # "idle") => client.created
    /\ Len(stderr) > 1 => client.created

\* C8 witness: the connectivity check failed with an Error and its message,
\* which held both credentials, was printed sanitized.
C8_Witness ==
    /\ pc = "exited"
    /\ client.created
    /\ Len(stderr) = 3
    /\ Contains(stderr[3], REDACTED)
    /\ ~Contains(stderr[3], client.key)
    /\ ~Contains(stderr[3], client.secret)

\* s is a prefix of t.
IsPrefix(s, t) == Len(s) <= Len(t) /\ SubSeq(t, 1, Len(s)) = s

\* C9: the registry is empty at process start, only ever grows at its end,
\* holds exactly the two credentials once createClient has returned (two
\* entries even when they are equal), and never changes after that.
C9_RegistryAppendOnly ==
    /\ [](pc = "loadConfig" => SENSITIVE_PATTERNS = <<>>)
    /\ [](client.created =>
            SENSITIVE_PATTERNS = <<config.apiKey, config.apiSecret>>)
    /\ [][/\ IsPrefix(SENSITIVE_PATTERNS, SENSITIVE_PATTERNS')
          /\ client.created => SENSITIVE_PATTERNS' = SENSITIVE_PATTERNS]_vars

\* C9 witness: equal credentials, and a tool call has been served.
C9_Witness ==
    /\ pc = "serving"
    /\ Len(SENSITIVE_PATTERNS) = 2
    /\ SENSITIVE_PATTERNS[1] = SENSITIVE_PATTERNS[2]
    /\ \E s \in Slots : calls[s].status = "returned" /\ calls[s].rejected

\* C10: every handler returns exactly one response, nothing it throws
\* leaves it, and a rejected client call gives a response with isError.
C10_HandlerAlwaysResponds ==
    \A s \in Slots :
        /\ calls[s].status # "escaped"
        /\ calls[s].status = "returned" =>
            /\ calls[s].responses = 1
            /\ calls[s].rejected => calls[s].response.isError

\* The text of a response (empty when there is none).
ResponseText(response) ==
    IF response.content = <<>> THEN <<>> ELSE response.content[1].text

\* The calls in flight or settled whose handler joins two reads.
JoinCalls ==
    {s \in Slots : calls[s].tool # "" /\ Descriptor(calls[s].tool).shape = "join"}

\* C11: a handler that joins two reads has issued both before it awaits;
\* when either read rejects it returns exactly one response, with isError,
\* whose text holds nothing of the read that resolved; it returns a success
\* response only when both reads resolved.
C11_JoinAllOrNothing ==
    \A s \in JoinCalls :
        /\ calls[s].status = "awaiting" =>
                calls[s].pending \cup calls[s].results = {1, 2}
        /\ calls[s].rejected =>
            /\ calls[s].status = "returned"
            /\ calls[s].responses = 1
            /\ calls[s].response.isError
            /\ ~Contains(ResponseText(calls[s].response), FormattedText)
        /\ (calls[s].status = "returned" /\ ~calls[s].response.isError) =>
                calls[s].results = {1, 2}

\* The calls in flight or settled of the komodo_write_resource handler.
WriteCalls ==
    {s \in Slots : calls[s].tool # "" /\ Descriptor(calls[s].tool).shape = "write"}

\* The arguments fail a required-field check of the write tool.
FailsRequiredField(args) ==
    \/ args.action = "create" /\ Falsy(args.name)
    \/ args.action = "update" /\ ~args.config.set
    \/ /\ args.action \in {"update", "delete"}
       /\ args.resource_type # "Variable"
       /\ Falsy(args.id)
    \/ /\ args.action \in {"update", "delete"}
       /\ args.resource_type = "Variable"
       /\ Falsy(args.name) /\ Falsy(args.id)

\* C12: a komodo_write_resource call that fails a required-field check
\* never has a client.write call in flight, and what it returns is one
\* response with isError that no client call contributed to.
C12_ValidationErrorWritesNothing ==
    \A s \in WriteCalls :
        FailsRequiredField(calls[s].args) =>
            /\ calls[s].status = "returned"
            /\ calls[s].responses = 1
            /\ calls[s].response.isError
            /\ calls[s].written = 0
            /\ calls[s].results = {}
            /\ ~calls[s].rejected

\* C12 witness: a delete of a Stack without id has been answered.
C12_Witness ==
    \E s \in WriteCalls :
        /\ calls[s].args.action = "delete"
        /\ calls[s].args.resource_type = "Stack"
        /\ Falsy(calls[s].args.id)
        /\ calls[s].status = "returned"
        /\ calls[s].response.isError
        /\ issued = {}

\* The variables loadConfig requires, and those of them env lacks.
RequiredVariables == {"KOMODO_URL", "KOMODO_API_KEY", "KOMODO_API_SECRET"}
MissingVariables == {n \in RequiredVariables : Falsy(env[n])}

\* How often a line names a variable.
Mentions(line, n) == Cardinality({i \in 1..Len(line) : line[i] = n})

\* C13: loadConfig returns a config exactly when no required variable is
\* absent or empty, and then the config holds the values of the environment;
\* otherwise the run ends on one error line that names each missing variable
\* once, names no other variable and holds no credential value.
C13_LoadConfigReportsAllMissing ==
    pc # "loadConfig" =>
        /\ config # NoConfig <=> MissingVariables = {}
        /\ config # NoConfig =>
            /\ config.apiKey = env.KOMODO_API_KEY.value
            /\ config.apiSecret = env.KOMODO_API_SECRET.value
            /\ IsPrefix(config.url, env.KOMODO_URL.value)
        /\ config = NoConfig =>
            /\ pc = "exited"
            /\ Len(stderr) = 1
            /\ \A n \in RequiredVariables :
                Mentions(stderr[1], n) = IF n \in MissingVariables THEN 1 ELSE 0
            /\ \A n \in {"KOMODO_API_KEY", "KOMODO_API_SECRET"} :
                ~Falsy(env[n]) => ~Contains(stderr[1], env[n].value)

\* C13 witness: all three variables are missing and the error names them.
C13_Witness ==
    /\ pc = "exited"
    /\ MissingVariables = RequiredVariables
    /\ Len(stderr) = 1
    /\ \A n \in RequiredVariables : Mentions(stderr[1], n) = 1

\* The positions that bound the comma-separated segments of v.
CommaCuts(v) == {0, Len(v) + 1} \cup {i \in 1..Len(v) : v[i] = ","}

\* The segments of v, each as the pair of cuts around it.
CommaSegments(v) ==
    {seg \in CommaCuts(v) \X CommaCuts(v) :
        /\ seg[1] < seg[2]
        /\ ~\E c \in CommaCuts(v) : seg[1] < c /\ c < seg[2]}

\* The positions of a segment that hold something other than whitespace.
InkOf(v, seg) == {i \in (seg[1] + 1)..(seg[2] - 1) : v[i] \notin Whitespace}

\* A segment without the whitespace around it.
TrimmedSegment(v, seg) ==
    IF InkOf(v, seg) = {} THEN <<>>
    ELSE SubSeq(v, CHOOSE i \in InkOf(v, seg) : \A j \in InkOf(v, seg) : i <= j,
                   CHOOSE i \in InkOf(v, seg) : \A j \in InkOf(v, seg) : j <= i)

\* The segments that are not empty once trimmed.
KeptSegments(v) == {seg \in CommaSegments(v) : InkOf(v, seg) # {}}

\* C14: the allowlist of a loaded config is null exactly when
\* KOMODO_CATEGORIES is absent or empty; otherwise it is the list, in order,
\* of the comma-separated segments of the variable, trimmed, without the
\* empty ones. An allowlist without entries is not null: it registers no
\* tool, where null registers tools.
C14_CategoryParsing ==
    config # NoConfig =>
        LET v == env.KOMODO_CATEGORIES.value
            list == config.categories.list
        IN  /\ config.categories.isNull
                <=> (~env.KOMODO_CATEGORIES.set \/ v = <<>>)
            /\ config.categories.isNull => list = <<>>
            /\ ~config.categories.isNull =>
                /\ Len(list) = Cardinality(KeptSegments(v))
                /\ \A seg \in KeptSegments(v) :
                    list[Cardinality({o \in KeptSegments(v) : o[1] <= seg[1]})]
                        = TrimmedSegment(v, seg)
            /\ pc = "startServer" =>
                /\ (~config.categories.isNull /\ list = <<>>) => server.tools = <<>>
                /\ config.categories.isNull => server.tools # <<>>

\* C14 witness: a value with spaces around its segments and an empty
\* segment has been parsed.
C14_Witness ==
    /\ config # NoConfig
    /\ env.KOMODO_CATEGORIES.value = <<" ", "write", ",", ",", "repos", " ">>
    /\ config.categories = CategoryList(<< <<"write">>, <<"repos">> >>)

\* registerAllTools has run to its end, once: every descriptor went through
\* registerTool one time, in order.
RegisteredOnce ==
    /\ nextModule = Len(ToolModules) + 1
    /\ Len(regLog) = Len(AllDescriptors)
    /\ \A i \in 1..Len(regLog) : regLog[i].name = AllDescriptors[i].name

\* C15: the server serves only after loadConfig returned a config, the
\* connectivity check resolved (nothing failed, nothing was reported) and
\* registerAllTools ran to its end once; the server is created only from a
\* resolved connectivity check; once the server serves, nothing is
\* registered any more; a tool call is only ever dispatched by a serving
\* server.
C15_ServeAfterStartup ==
    /\ [](server.started =>
            /\ pc = "serving"
            /\ config # NoConfig
            /\ client.created
            /\ exitCode = {}
            /\ stderr = <<>>
            /\ RegisteredOnce)
    /\ []((\E s \in Slots : calls[s].status # "idle") => server.started)
    /\ [][(pc' = "createServer" /\ pc # "createServer") => pc = "awaitVersion"]_vars
    /\ [][server.started =>
            /\ server' = server
            /\ regLog' = regLog
            /\ nextModule' = nextModule]_vars

\* C15 witness: a serving server with registered tools has a call in flight.
C15_Witness ==
    /\ server.started
    /\ server.tools # <<>>
    /\ \E s \in Slots : calls[s].status = "awaiting"

\* C16: when loadConfig fails or the connectivity check rejects, the process
\* exits with status 1, with no server created, no tool registered and no
\* call served, and it does nothing after that; a status is only set by such
\* an exit; the details printed for a connectivity failure are the sanitized
\* message of the error.
C16_StartupFailureExits ==
    /\ []((pc # "loadConfig" /\ MissingVariables # {}) => pc = "exited")
    /\ [](pc = "exited" <=> exitCode = {1})
    /\ [](pc = "exited" =>
            /\ server = NoServer
            /\ regLog = <<>>
            /\ issued = {}
            /\ \A s \in Slots : calls[s].status = "idle")
    /\ [](Len(stderr) = 3 =>
            \E error \in RejectValues(config) :
                /\ instanceofError(error)
                /\ stderr[3] = <<"Details: ">>
                                \o sanitizeWith(<<config.apiKey, config.apiSecret>>,
                                                error.text))
    /\ [][(pc = "awaitVersion" /\ pc' # "createServer") =>
            (pc' = "exited" /\ exitCode' = {1})]_vars
    /\ [][pc # "exited"]_vars

\* C16 witness: the connectivity check rejected with an Error; the process
\* has exited after printing its details.
C16_Witness ==
    /\ pc = "exited"
    /\ exitCode = {1}
    /\ client.created
    /\ Len(stderr) = 3
    /\ server = NoServer

\* The names registerAllTools registers under cfg.
RegisteredUnder(cfg) == RegisteredNames(registerAllTools(cfg).server)

\* C17: without an allowlist, registerAllTools registers 46 tools under tier
\* full, 45 under read-execute and 31 under read-only.
C17_DocumentedToolCounts ==
    (pc = "startServer" /\ config.categories.isNull) =>
        Len(server.tools) =
            CASE config.accessTier = "full" -> 46
              [] config.accessTier = "read-execute" -> 45
              [] config.accessTier = "read-only" -> 31

\* C18: without an allowlist, the tools registered under full and not under
\* read-execute are komodo_write_resource and nothing else, and that tool
\* is not registered under read-execute or read-only.
C18_OneFullTierTool ==
    (pc = "startServer" /\ config.categories.isNull) =>
        /\ config.accessTier = "full" =>
                RegisteredNames(server)
                    \ RegisteredUnder([config EXCEPT !.accessTier = "read-execute"])
                = {"komodo_write_resource"}
        /\ config.accessTier # "full" =>
            /\ "komodo_write_resource" \notin RegisteredNames(server)
            /\ RegisteredUnder([config EXCEPT !.accessTier = "full"])
                    \ RegisteredUnder([config EXCEPT !.accessTier = "read-execute"])
                = {"komodo_write_resource"}

\* C18 witness: a run at tier full without allowlist registered the write
\* tool next to the others.
C18_Witness ==
    /\ pc = "startServer"
    /\ config.categories.isNull
    /\ config.accessTier = "full"
    /\ "komodo_write_resource" \in RegisteredNames(server)
    /\ Cardinality(RegisteredNames(server)) > 1

\* README, Available Categories.
DocumentedCategories ==
    << <<"servers">>, <<"stacks">>, <<"deployments">>, <<"containers">>,
       <<"builds">>, <<"repos">>, <<"procedures">>, <<"actions">>,
       <<"builders">>, <<"alerters">>, <<"resource-syncs">>, <<"write">> >>

\* C19: every registered tool has one of the documented categories, so an
\* allowlist of all the documented categories registers what no allowlist
\* registers.
C19_DocumentedCategoriesCoverAll ==
    (pc = "startServer" /\ config.categories.isNull) =>
        /\ \A n \in RegisteredNames(server) :
            \E i \in 1..Len(DocumentedCategories) :
                DocumentedCategories[i] = <<Descriptor(n).category>>
        /\ RegisteredUnder([config EXCEPT
                                !.categories = CategoryList(DocumentedCategories)])
            = RegisteredNames(server)

\* C20: the loaded tier is read-only or read-execute exactly when
\* KOMODO_ACCESS_TIER is that string; for every other value, or none, it is
\* full; the value of the variable never makes loading fail.
C20_TierDefaultsToFull ==
    /\ config # NoConfig =>
        /\ \A t \in {"read-only", "read-execute"} :
            config.accessTier = t
                <=> (env.KOMODO_ACCESS_TIER.set /\ env.KOMODO_ACCESS_TIER.value = t)
        /\ config.accessTier \in Tiers
    /\ (pc # "loadConfig" /\ MissingVariables = {}) => config # NoConfig

\* C20 witness: a misspelled tier was loaded as full and the write tool is
\* registered.
C20_Witness ==
    /\ env.KOMODO_ACCESS_TIER = Defined("readonly")
    /\ config # NoConfig
    /\ config.accessTier = "full"
    /\ "komodo_write_resource" \in RegisteredNames(server)

----------------------------------------------------------------------------
(* handleKomodoError: the response it builds *)

\* A rejection value that has a message property.
hasMessageProperty(error) == error.kind \in {"Error", "messageObject"}

\* The message of a rejection value by the rule "its message property if it
\* has one, else its structured stringification, else its string coercion".
messageByProperty(error) ==
    IF hasMessageProperty(error) THEN error.text
    ELSE IF isNonNullObject(error) THEN JSONstringify(error).text
    ELSE StringOf(error)

\* The calls whose client call rejected.
RejectedCalls == {s \in DOMAIN calls : calls[s].rejected}

\* C21: for every rejection value the catch block's handleKomodoError
\* returns exactly one text block with isError true, and the text is
\* "Error " + context + ": " + the sanitized message, the message being the
\* value's message property if it has one, else its structured
\* stringification, else its string coercion.
C21_WrapErrorResponse ==
    \A s \in RejectedCalls :
        /\ calls[s].status = "returned"
        /\ calls[s].response =
            [content |-> << [type |-> "text",
                             text |-> <<"E", "r", "r", "o", "r", " ">>
                                 \o contextOf(Descriptor(calls[s].tool).context,
                                              calls[s].args)
                                 \o <<":", " ">>
                                 \o sanitizeWith(SENSITIVE_PATTERNS,
                                        messageByProperty(calls[s].error))] >>,
             isError |-> TRUE]

\* The same with the message chosen as the code chooses it (an Error
\* instance gives its message, any other object is stringified), for the
\* rejection values whose stringification does not throw.
C21_ExceptCircular ==
    \A s \in RejectedCalls :
        calls[s].error.kind # "circular" =>
            /\ calls[s].status = "returned"
            /\ calls[s].response =
                [content |-> << [type |-> "text",
                                 text |-> <<"E", "r", "r", "o", "r", " ">>
                                     \o contextOf(Descriptor(calls[s].tool).context,
                                                  calls[s].args)
                                     \o <<":", " ">>
                                     \o sanitizeWith(SENSITIVE_PATTERNS,
                                            rawMessageOf(calls[s].error).text)] >>,
                 isError |-> TRUE]

\* Only the circular object and the plain object with a message property
\* depart from the stated response.
C21_OnlyTwoDepartures ==
    \A s \in RejectedCalls :
        calls[s].error.kind \notin {"circular", "messageObject"} =>
            /\ calls[s].status = "returned"
            /\ ResponseText(calls[s].response) =
                    <<"E", "r", "r", "o", "r", " ">>
                    \o contextOf(Descriptor(calls[s].tool).context, calls[s].args)
                    \o <<":", " ">>
                    \o sanitizeWith(SENSITIVE_PATTERNS,
                                    messageByProperty(calls[s].error))

----------------------------------------------------------------------------
(* komodo_write_resource: what an update is keyed by *)

\* The update calls of komodo_write_resource that have been dispatched.
UpdateCalls == {s \in WriteCalls : calls[s].args.action = "update"}

\* The handler returned a validation error: an error response without
\* having issued any client call.
RejectedByValidation(s) ==
    /\ calls[s].status = "returned"
    /\ calls[s].response.isError
    /\ calls[s].sent = <<>>

\* C22: an update of a type other than Variable without id is rejected and
\* with an id addresses the resource by that id; an update of a Variable
\* does not need an id: with a name and a config it is not rejected, and
\* every write it issues addresses the variable by name, by the given name
\* when one is given.
C22_UpdateKeyedByIdExceptVariable ==
    \A s \in UpdateCalls :
        LET a == calls[s].args
        IN  IF a.resource_type # "Variable"
            THEN /\ Falsy(a.id) => RejectedByValidation(s)
                 /\ \A k \in 1..Len(calls[s].sent) :
                        calls[s].sent[k].target = ById(a.id)
            ELSE /\ (~Falsy(a.name) /\ a.config.set) => ~RejectedByValidation(s)
                 /\ \A k \in 1..Len(calls[s].sent) :
                        /\ calls[s].sent[k].target.key = "name"
                        /\ ~Falsy(a.name) => calls[s].sent[k].target.value = a.name

\* A Variable update without id has written under the given name.
C22_Witness ==
    \E s \in UpdateCalls :
        /\ calls[s].args.resource_type = "Variable"
        /\ Falsy(calls[s].args.id)
        /\ calls[s].status = "returned"
        /\ ~calls[s].response.isError
        /\ calls[s].written = 2
        /\ calls[s].sent[2].target = ByName(calls[s].args.name)

----------------------------------------------------------------------------
(* No retries *)

\* No client call occurs twice among the calls a handler has issued.
IssuedOnce(sent) ==
    \A j, k \in 1..Len(sent) : sent[j] = sent[k] => j = k

\* C23: within one tool call each remote operation is issued at most once;
\* the step on which a client call rejects issues nothing and ends the
\* handler, and from then on the tool call issues no further client call.
C23_NoRetries ==
    [][\A s \in DOMAIN calls :
        /\ IssuedOnce(calls'[s].sent)
        /\ (calls[s].status = "awaiting" /\ calls'[s].rejected) =>
                /\ calls'[s].sent = calls[s].sent
                /\ calls'[s].status \in {"returned", "escaped"}
        /\ calls[s].rejected =>
                \/ calls'[s].sent = calls[s].sent
                \/ calls'[s] = IdleCall]_vars

\* A two-field Variable update whose first write rejected has returned its
\* error response with the second write never issued.
C23_Witness ==
    \E s \in DOMAIN calls :
        /\ calls[s].tool = "komodo_write_resource"
        /\ Len(writePlan(calls[s].args).ops) = 2
        /\ calls[s].rejected
        /\ calls[s].status = "returned"
        /\ calls[s].response.isError
        /\ Len(calls[s].sent) = 1

----------------------------------------------------------------------------
(* registerTool applied to arbitrary registration options *)

MaxRegistrations == 2

AnnotationKeys == {"readOnlyHint", "destructiveHint", "idempotentHint"}

\* options.annotations: any of the hints may be given or left out (no
\* annotations at all is the record without fields).
PartialAnnotations == UNION {[K -> BOOLEAN] : K \in SUBSET AnnotationKeys}

\* The ToolRegistrationOptions handed to registerTool.
RegOptions ==
    [name : {"tool"}, accessTier : {"read-only", "full"}, category : {"servers"},
     annotations : PartialAnnotations]

\* The configs registerTool runs under.
RegConfigs ==
    {[NoConfig EXCEPT !.accessTier = tier, !.categories = categories] :
        tier \in {"read-only", "full"},
        categories \in {NullCategories, CategoryList(<< <<"write">> >>)}}

RegInit ==
    /\ env = CHOOSE e \in Environments : TRUE
    /\ pc = "registering"
    /\ config \in RegConfigs
    /\ SENSITIVE_PATTERNS = <<>>
    /\ client = NoClient
    /\ server = NewServer
    /\ regLog = <<>>
    /\ nextModule = 1
    /\ exitCode = {}
    /\ stderr = <<>>
    /\ issued = {}
    /\ calls = [s \in Slots |-> IdleCall]
    /\ message = <<>>
    /\ sanitized = <<>>
    /\ resanitized = <<>>

\* registerTool(server, config, options); the log keeps the options with
\* the value returned.
RegisterOne ==
    /\ pc = "registering"
    /\ Len(regLog) < MaxRegistrations
    /\ \E options \in RegOptions :
        LET result == registerTool(server, config, options)
        IN  /\ server' = result.server
            /\ regLog' = Append(regLog, [name |-> options.name,
                                         registered |-> result.registered,
                                         options |-> options])
    /\ UNCHANGED <<env, pc, config, SENSITIVE_PATTERNS, client, nextModule,
                   exitCode, stderr, issued, calls, sanVars>>

RegNext == RegisterOne

RegSpec == RegInit /\ [][RegNext]_vars

\* The number of registerTool calls among the first i that registered.
RegisteredAmong(i) == Cardinality({j \in 1..i : regLog[j].registered})

\* The default value of an annotation for the given options.
DefaultHint(key, options) ==
    IF key = "readOnlyHint" THEN options.accessTier = "read-only" ELSE FALSE

\* C24: the annotations handed to the server for a registered tool have the
\* two default fields and the descriptor's own fields; each field the
\* descriptor supplies has the descriptor's value, each other field has its
\* default: readOnlyHint = (required tier is read-only), destructiveHint =
\* false.
C24_AnnotationsMerged ==
    \A i \in 1..Len(regLog) :
        regLog[i].registered =>
            LET options == regLog[i].options
                handed == server.tools[RegisteredAmong(i)].annotations
            IN  /\ DOMAIN handed
                       = {"readOnlyHint", "destructiveHint"}
                             \cup DOMAIN options.annotations
                /\ \A key \in DOMAIN handed :
                       handed[key] = IF key \in DOMAIN options.annotations
                                     THEN options.annotations[key]
                                     ELSE DefaultHint(key, options)

\* A read-only descriptor that sets destructiveHint against the default and
\* leaves readOnlyHint out has been registered: the first is the
\* descriptor's, the second the default.
C24_Witness ==
    \E i \in 1..Len(regLog) :
        /\ regLog[i].registered
        /\ regLog[i].options.accessTier = "read-only"
        /\ DOMAIN regLog[i].options.annotations = {"destructiveHint"}
        /\ regLog[i].options.annotations["destructiveHint"]
        /\ server.tools[RegisteredAmong(i)].annotations["destructiveHint"]
        /\ server.tools[RegisteredAmong(i)].annotations["readOnlyHint"]

----------------------------------------------------------------------------
(* Tool calls in flight at the same time *)

\* Two handler invocations may be in flight at once.
ConcSlots == {1, 2}

\* The environment of the server whose calls overlap: full tier, the
\* categories write and repos.
ConcEnvironment ==
    [KOMODO_URL |-> Defined(URL_TEXT),
     KOMODO_API_KEY |-> Defined(KEY_TEXT),
     KOMODO_API_SECRET |-> Defined(SECRET_TEXT),
     KOMODO_ACCESS_TIER |-> Defined("full"),
     KOMODO_CATEGORIES |-> Defined(<<" ", "write", ",", ",", "repos", " ">>),
     DEBUG |-> Undefined]

\* The komodo_write_resource calls that overlap: a two-field Variable
\* update, with and without its config.
ConcWriteArgs ==
    {args \in WriteArgs :
        /\ args.action = "update"
        /\ args.resource_type = "Variable"
        /\ args.name = Defined(<<"n">>)
        /\ args.id = Undefined
        /\ args.config # [set |-> TRUE, fields |-> {}]}

ConcInit ==
    /\ env = ConcEnvironment
    /\ pc = "loadConfig"
    /\ config = NoConfig
    /\ SENSITIVE_PATTERNS = <<>>
    /\ client = NoClient
    /\ server = NoServer
    /\ regLog = <<>>
    /\ nextModule = 1
    /\ exitCode = {}
    /\ stderr = <<>>
    /\ issued = {}
    /\ calls = [s \in ConcSlots |-> IdleCall]
    /\ message = <<>>
    /\ sanitized = <<>>
    /\ resanitized = <<>>

ConcNext ==
    \/ LoadConfig
    \/ CreateClientStep
    \/ ValidateConnectionIssue
    \/ ValidateConnectionResolve
    \/ ValidateConnectionReject
    \/ CreateServer
    \/ RegisterNextModule
    \/ StartServer
    \/ \E s \in ConcSlots : DispatchOne(s)
    \/ \E s \in ConcSlots : DispatchJoin(s)
    \/ \E s \in ConcSlots : DispatchWriteWith(s, ConcWriteArgs)
    \/ \E s \in ConcSlots : CallResolve(s)
    \/ \E s \in ConcSlots : CallReject(s)
    \/ \E s \in ConcSlots : Release(s)

ConcSpec == ConcInit /\ [][ConcNext]_vars

\* The response of a call taken alone: what its handler returns given the
\* call's own arguments and the outcome of its own client calls.
IsolatedResponse(call) ==
    IF Descriptor(call.tool).shape = "write" /\ writePlan(call.args).invalid
    THEN writePlan(call.args).response
    ELSE IF call.rejected
    THEN handleKomodoError(SENSITIVE_PATTERNS,
                           contextOf(Descriptor(call.tool).context, call.args),
                           call.error).response
    ELSE TextResponse(FormattedText, FALSE)

\* C25: while tool calls are in flight, in any interleaving, no step writes
\* the secret registry or the config, a step of one call leaves every other
\* call as it is, and the response a call returns is the response it
\* returns taken alone, given its arguments and the outcome of its own
\* client calls.
C25_CallsIsolated ==
    [][pc = "serving" =>
        /\ SENSITIVE_PATTERNS' = SENSITIVE_PATTERNS
        /\ config' = config
        /\ \A s, t \in DOMAIN calls :
                (s # t /\ calls'[s] # calls[s]) => calls'[t] = calls[t]
        /\ \A s \in DOMAIN calls :
                calls'[s].status = "returned" =>
                    calls'[s].response = IsolatedResponse(calls'[s])]_vars

\* One call has returned the error response of its rejected read while a
\* Variable update in the other slot is between its two writes.
C25_Witness ==
    /\ calls[1].status = "returned"
    /\ calls[1].tool = "komodo_get_repo"
    /\ calls[1].rejected
    /\ calls[1].response.isError
    /\ calls[2].status = "awaiting"
    /\ calls[2].tool = "komodo_write_resource"
    /\ calls[2].written = 1

----------------------------------------------------------------------------
(* Error responses and the registered secrets *)

\* The calls that ended in an error response.
ErrorResponses ==
    {s \in DOMAIN calls : calls[s].status = "returned" /\ calls[s].response.isError}

\* C26: the text of every error response of a tool call, context part and
\* message part together, contains no registered secret.
C26_ErrorResponseHasNoSecret ==
    \A s \in ErrorResponses :
        \A i \in 1..Len(SENSITIVE_PATTERNS) :
            ~Contains(ResponseText(calls[s].response), SENSITIVE_PATTERNS[i])

\* The same for the message part alone: what follows "Error <context>: ".
C26_MessagePartHasNoSecret ==
    \A s \in ErrorResponses :
        calls[s].rejected =>
            \A i \in 1..Len(SENSITIVE_PATTERNS) :
                ~Contains(sanitizeWith(SENSITIVE_PATTERNS,
                                       rawMessageOf(calls[s].error).text),
                          SENSITIVE_PATTERNS[i])

\* The same for the calls whose arguments hold no registered secret.
C26_UnlessArgumentIsSecret ==
    \A s \in ErrorResponses :
        (\A i \in 1..Len(SENSITIVE_PATTERNS) :
            ~Contains(calls[s].args.arg, SENSITIVE_PATTERNS[i])) =>
            \A i \in 1..Len(SENSITIVE_PATTERNS) :
                ~Contains(ResponseText(calls[s].response), SENSITIVE_PATTERNS[i])

----------------------------------------------------------------------------
(* komodo_write_resource: responses and the writes behind them *)

\* C27: every non-error response of komodo_write_resource follows at least
\* one client.write call issued and resolved within the same tool call; a
\* Variable update that reports success has written at least one field.
C27_SuccessHasWritten ==
    \A s \in WriteCalls :
        (calls[s].status = "returned" /\ ~calls[s].response.isError) =>
            /\ calls[s].sent # <<>>
            /\ calls[s].written >= 1

\* The same except for the Variable update whose config names none of
\* value, description and is_secret.
C27_UnlessNoFieldGiven ==
    \A s \in WriteCalls :
        (/\ calls[s].status = "returned"
         /\ ~calls[s].response.isError
         /\ ~(/\ calls[s].args.action = "update"
              /\ calls[s].args.resource_type = "Variable"
              /\ calls[s].args.config.fields = {})) =>
            /\ calls[s].sent # <<>>
            /\ calls[s].written >= 1

\* C28: when a komodo_write_resource call returns an error response, no
\* client.write call of that tool call has resolved: a Variable update of
\* several fields applies all of them or none.
C28_ErrorHasWrittenNothing ==
    \A s \in WriteCalls :
        (calls[s].status = "returned" /\ calls[s].response.isError) =>
            calls[s].written = 0

\* The same for the calls that write with a single operation.
C28_SingleWrite ==
    \A s \in WriteCalls :
        (/\ calls[s].status = "returned"
         /\ calls[s].response.isError
         /\ Len(writePlan(calls[s].args).ops) <= 1) =>
            calls[s].written = 0

----------------------------------------------------------------------------
(* The tool the execute responses refer to *)

\* The registered tools whose handler calls client.execute.
RegisteredExecuteTools ==
    {name \in RegisteredNames(server) : Descriptor(name).verb = "execute"}

\* C29: once registration is done, under every configuration that registers
\* at least one execute tool, komodo_get_update is registered too.
C29_GetUpdateWithExecuteTools ==
    (RegistrationDone /\ RegisteredExecuteTools # {}) =>
        "komodo_get_update" \in RegisteredNames(server)

\* The same for the configurations without a category allowlist.
C29_WithoutAllowlist ==
    (RegistrationDone /\ RegisteredExecuteTools # {} /\ config.categories.isNull) =>
        "komodo_get_update" \in RegisteredNames(server)

----------------------------------------------------------------------------
(* The allowlist loadConfig returns *)

\* C30: for every value of KOMODO_CATEGORIES the allowlist of the config
\* loadConfig returned is null or a list with at least one entry, so that
\* no input leaves registerAllTools with an allowlist that admits no tool.
C30_AllowlistNullOrNonEmpty ==
    config # NoConfig =>
        \/ config.categories.isNull
        \/ Len(config.categories.list) > 0

\* Once registration is done at least one tool is registered.
C30_SomeToolRegistered ==
    RegistrationDone => server.tools # <<>>

====
